---- MODULE Spec2Model ----
(***************************************************************************)
(* Tool-orchestration engine of idp-cloudgenie-backend:                    *)
(*   - ResultCache and OrchestrationService.ProcessPrompt                  *)
(*     (internal/handlers/orchestration.go),                               *)
(*   - the stdio JSON-RPC Client (call / readResponses / Close)            *)
(*     (internal/mcp, second Client of internal/models/api.go).            *)
(* Time is counted in minutes.                                             *)
(***************************************************************************)
EXTENDS Integers, Sequences, FiniteSets, TLC

(***************************************************************************)
(* Program constants                                                       *)
(***************************************************************************)
MaxToolIterations == 5

CacheTTL == 5

(***************************************************************************)
(* Bounds of the model                                                     *)
(***************************************************************************)
\* latest minute the clock reaches
MaxTime == 6

\* most entries of an argument map given to generateCacheKey on its own
MaxArgs == 2

\* most requests the callers of Client.call send in a run
MaxRequests == 3

\* most lines the server writes that answer no request
MaxNoise == 2

\* most CachedResult objects allocated in a run of the cache by reference
MaxObjects == 3

\* most lines of a model text
MaxLines == 3

\* most CallTool failures (tool-level or transport) the endpoint produces in a run
MaxFailures == 2

\* most responses with tool calls the Adapter gives to one of two overlapping requests
MaxToolTurns == 2

\* the ProcessPrompt calls in flight (HTTP requests on one service)
Tasks == {"p1", "p2"}

(***************************************************************************)
(* Small helpers                                                           *)
(***************************************************************************)
Range(s) == {s[i] : i \in 1..Len(s)}

None == [none |-> TRUE]

(***************************************************************************)
(* generateCacheKey: json.Marshal of the argument map, then the first 8    *)
(* bytes of SHA-256 over "tool:args".  A Go map is given by one of its     *)
(* enumerations: a sequence of <<key, value>> pairs with distinct keys.    *)
(* encoding/json writes map entries sorted by key.                         *)
(***************************************************************************)
\* the strings that occur, in byte order; a string's code is its position
Alphabet == <<":", "get_blueprint", "kind", "list_blueprints", "name", "ns", "x", "y">>

Code(s) == CHOOSE i \in 1..Len(Alphabet) : Alphabet[i] = s

\* insert pair p into the key-sorted sequence s
RECURSIVE InsertSorted(_, _)
InsertSorted(p, s) ==
    IF s = <<>> THEN <<p>>
    ELSE IF Code(p[1]) <= Code(Head(s)[1]) THEN <<p>> \o s
    ELSE <<Head(s)>> \o InsertSorted(p, Tail(s))

RECURSIVE SortByKey(_)
SortByKey(args) ==
    IF args = <<>> THEN <<>> ELSE InsertSorted(Head(args), SortByKey(Tail(args)))

RECURSIVE Flatten(_)
Flatten(pairs) ==
    IF pairs = <<>> THEN <<>>
    ELSE <<Head(pairs)[1], Head(pairs)[2]>> \o Flatten(Tail(pairs))

\* json.Marshal(args): the entries in key order
MarshalArgsUnsorted(args) == Flatten(args)

MarshalArgs(args) == Flatten(SortByKey(args))

\* width of the digest prefix kept in the key (hash[:8]), scaled to TLC's integers
DigestSpace == 65521

RECURSIVE Sum256(_, _)
Sum256(bytes, h) ==
    IF bytes = <<>> THEN h
    ELSE Sum256(Tail(bytes), (h * 31 + Code(Head(bytes))) % DigestSpace)

\* a value json.Marshal rejects (a float64 that is not a number)
Unsupported == "NaN"

\* json.Marshal(args) returns an error
MarshalFails(args) == \E i \in 1..Len(args) : args[i][2] = Unsupported

\* lines 133-144; the key is the tool name alone when the arguments cannot
\* be encoded
generateCacheKey(toolName, args) ==
    IF MarshalFails(args) THEN <<toolName>>
    ELSE <<toolName, Sum256(<<toolName, ":">> \o MarshalArgs(args), 7)>>


(***************************************************************************)
(* The tool catalog and what the collaborators can hand to the loop        *)
(***************************************************************************)
\* s.tools, discovered once by NewOrchestrationService
Catalog == <<"list_blueprints", "get_blueprint">>

\* the (tool, arguments) pairs an Adapter may ask for
ToolCallChoices ==
    { [Name |-> "list_blueprints", Arguments |-> <<>>],
      [Name |-> "get_blueprint", Arguments |-> << <<"name", "x">> >>] }

\* an ordered list of invocations; the id is unique within the response
RECURSIVE WithIDs(_, _)
WithIDs(choices, n) ==
    IF choices = <<>> THEN <<>>
    ELSE <<[ID |-> n, Name |-> Head(choices).Name, Arguments |-> Head(choices).Arguments]>>
         \o WithIDs(Tail(choices), n + 1)

ListBlueprints == [Name |-> "list_blueprints", Arguments |-> <<>>]

GetBlueprint == [Name |-> "get_blueprint", Arguments |-> << <<"name", "x">> >>]

\* the load on the service.  "serial": requests one after the other within one
\* minute, whose Adapter may ask for any of the invocation lists below in every
\* iteration.  "overlapping": two requests that overlap while the clock runs,
\* whose Adapter asks for one tool at a time, MaxToolTurns times at most.
Workloads == {"serial", "overlapping"}

Callers(w) == IF w = "serial" THEN {"p1"} ELSE Tasks

ToolTurns(w) == IF w = "serial" THEN MaxToolIterations ELSE MaxToolTurns

Horizon(w) == IF w = "serial" THEN 0 ELSE MaxTime

\* the non-empty invocation lists an Adapter response may carry
Responses(w) ==
    IF w = "serial"
    THEN {<<ListBlueprints>>, <<GetBlueprint>>, <<GetBlueprint, ListBlueprints>>}
    ELSE {<<ListBlueprints>>}

\* results the endpoint answers a tools/call with
TextPart(s) == [Type |-> "text", Text |-> s]

ToolOutput(name) ==
    IF name = "list_blueprints" THEN <<TextPart("[]")>>
    ELSE <<TextPart("blueprint"), TextPart("x")>>

ToolOutcomes == {"ok", "toolError", "transportError"}

CallToolResult(name, outcome) ==
    IF outcome = "ok" THEN [Content |-> ToolOutput(name), IsError |-> FALSE]
    ELSE [Content |-> <<TextPart("tool failed")>>, IsError |-> TRUE]

\* the error CallTool returns when the exchange itself fails
CallToolErr(name) == <<"failed to call tool", name, "transport">>

(***************************************************************************)
(* State                                                                   *)
(***************************************************************************)
VARIABLES
    store,      \* ResultCache.store: cache key -> CachedResult
    ttl,        \* ResultCache.ttl
    now,        \* the wall clock, in minutes
    loc,        \* per ProcessPrompt call: its position, locals and result
    obs,        \* per ProcessPrompt call: what it did (Chat and CallTool counts)
    lastFailed, \* per (tool, args): the latest resolution was an error
    failedSinceLookup, \* per (tool, args): an error with no success since its lookup
    workload,   \* the load the service is under
    failures,   \* CallTool failures so far
    got,        \* a direct user of the cache: what its latest Get returned
    lastSet,    \* per cache key: the content and the time of the latest Set
    inCache,    \* per goroutine inside a ResultCache method: position and lock held
    refs,       \* the cache as Go holds it: key -> *CachedResult, and a caller's pointer
    keyIn,      \* generateCacheKey on its own: a tool name and two argument maps
    keyOut,     \* generateCacheKey on its own: the two keys
    resolution, \* one invocation resolved on its own: what it got and from where
    parse,      \* a model text and what the two text-parsing Adapters extract from it
    creation,   \* ResourceService.CreateResource: its position, the repository, the pushes
    requestID,  \* Client.requestID
    pendingCalls, \* Client.pendingCalls: the ids that have a delivery channel
    chan,       \* the delivery channels made so far, by id: what each buffers
    caller,     \* per caller of Client.call: its position, id and result
    reader,     \* the readResponses goroutine: its position and what it holds
    stdin,      \* the requests written to the server and not yet read by it
    stdout,     \* the lines written by the server and not yet scanned
    serverUp,   \* the server process runs
    noise,      \* lines the server has written that answer no request
    initialized, \* Client.initialized
    tools,      \* Client.tools: the names of the cached catalog
    mu,         \* Client.mu: the goroutine that holds it, or "free"
    user,       \* per goroutine that uses the Client: the method it is in
    endpoint,   \* the MCP endpoint: its tool list and the requests it has got
    hist        \* what the Client's methods have done so far

orchVars == <<loc, obs, lastFailed, failedSinceLookup, workload, failures>>

cacheUserVars == <<got, lastSet, inCache, refs>>

keyVars == <<keyIn, keyOut, resolution, parse, creation>>

clientVars ==
    <<requestID, pendingCalls, chan, caller, reader, stdin, stdout, serverUp, noise>>

sessionVars == <<initialized, tools, mu, user, endpoint, hist>>

vars == <<store, ttl, now, orchVars, cacheUserVars, keyVars, clientVars, sessionVars>>

(***************************************************************************)
(* ResultCache                                                             *)
(***************************************************************************)
GetExpiredLoose(entry, t) == t - entry.Timestamp >= ttl

\* Get, line 59: time.Since(result.Timestamp) > c.ttl
GetExpired(entry, t) == t - entry.Timestamp > ttl

CacheGet(st, key, t) ==
    IF key \notin DOMAIN st THEN [found |-> FALSE, entry |-> None]
    ELSE IF GetExpired(st[key], t) THEN [found |-> FALSE, entry |-> None]
    ELSE [found |-> TRUE, entry |-> st[key]]

CacheSetKeepStamp(st, key, content, isError, t) ==
    [k \in DOMAIN st \cup {key} |->
        IF k = key
        THEN [Content |-> content,
              Timestamp |-> IF key \in DOMAIN st THEN st[key].Timestamp ELSE t,
              IsError |-> isError]
        ELSE st[k]]

CacheSet(st, key, content, isError, t) ==
    [k \in DOMAIN st \cup {key} |->
        IF k = key THEN [Content |-> content, Timestamp |-> t, IsError |-> isError]
        ELSE st[k]]

SweepExpiredLoose(entry, t) == t - entry.Timestamp >= ttl

\* cleanupExpired, line 87: now.Sub(result.Timestamp) > c.ttl
SweepExpired(entry, t) == t - entry.Timestamp > ttl

CacheSweep(st, t) ==
    [k \in {j \in DOMAIN st : ~SweepExpired(st[j], t)} |-> st[k]]

Stats(st) == [total_entries |-> Cardinality(DOMAIN st)]

(***************************************************************************)
(* formatToolResult and formatToolResultsForPrompt                         *)
(***************************************************************************)
RECURSIVE TextParts(_)
TextParts(content) ==
    IF content = <<>> THEN <<>>
    ELSE IF Head(content).Type = "text"
         THEN <<Head(content).Text>> \o TextParts(Tail(content))
         ELSE TextParts(Tail(content))

formatToolResult(result) ==
    IF Len(result.Content) = 0
    THEN <<"text", "Tool executed successfully with no output">>
    ELSE IF Len(TextParts(result.Content)) = 0 THEN <<"json", result>>
    ELSE IF Len(TextParts(result.Content)) = 1
         THEN <<"text", TextParts(result.Content)[1]>>
    ELSE <<"json-array", TextParts(result.Content)>>

PromptLineAlwaysSuccess(result) == <<"Success", result.Content>>

\* one line of the prompt per result: its mark and its content
PromptLine(result) ==
    IF result.IsError THEN <<"Error", result.Content>> ELSE <<"Success", result.Content>>

formatToolResultsForPrompt(results) ==
    IF Len(results) = 0 THEN <<>>
    ELSE <<"Tool execution results:">>
         \o [i \in 1..Len(results) |-> PromptLine(results[i])]
         \o <<"Please analyze these results and provide a response to the user.">>

(***************************************************************************)
(* ProcessPrompt: the locals of one call, and the pieces of its loop body  *)
(***************************************************************************)
AdvisoryMessage ==
    <<"advisory",
      "Maximum tool execution iterations reached. Please try breaking down your request.">>

\* what the Adapter answers on the n-th Chat of call t; the loop never looks inside
Text(t, n) == <<"text", t, n>>

UserPrompt(t) == <<"prompt", t>>

NoResult == [returned |-> FALSE]

Idle ==
    [pc |-> "Idle", iteration |-> 0, currentPrompt |-> <<>>,
     conversationHistory |-> <<>>, allToolCalls |-> <<>>, allToolResults |-> <<>>,
     cacheHits |-> 0, cacheMisses |-> 0,
     aiToolCalls |-> <<>>, idx |-> 0, toolResults |-> <<>>,
     lastOutcome |-> "none", result |-> NoResult,
     ctxDone |-> FALSE]

EntryOfFirstCaller(t) ==
    [Idle EXCEPT !.pc = "LoopHead", !.currentPrompt = UserPrompt("p1")]

\* lines 148-157
Entry(t) == [Idle EXCEPT !.pc = "LoopHead", !.currentPrompt = UserPrompt(t)]

MetadataStaleIteration(l, stats) ==
    [iterations |-> l.iteration - 1, tools_available |-> Len(Catalog),
     cache_hits |-> l.cacheHits, cache_misses |-> l.cacheMisses, cache_stats |-> stats]

\* lines 179-188 and 285-294: the metadata of a response
Metadata(l, stats) ==
    [iterations |-> l.iteration, tools_available |-> Len(Catalog),
     cache_hits |-> l.cacheHits, cache_misses |-> l.cacheMisses, cache_stats |-> stats]

\* lines 176-189
DoneResponse(l, content, stats) ==
    [returned |-> TRUE, err |-> "nil", max_reached |-> FALSE,
     Response |-> content, ToolCalls |-> l.allToolCalls,
     ToolResults |-> l.allToolResults, Metadata |-> Metadata(l, stats)]

LimitResponseWithoutLastTurn(l, stats) ==
    [returned |-> TRUE, err |-> "nil", max_reached |-> TRUE,
     Response |-> AdvisoryMessage, ToolCalls |-> l.allToolCalls,
     ToolResults |-> SubSeq(l.allToolResults, 1,
                            Len(l.allToolResults) - Len(l.toolResults)),
     Metadata |-> Metadata(l, stats)]

\* lines 282-295
LimitResponse(l, stats) ==
    [returned |-> TRUE, err |-> "nil", max_reached |-> TRUE,
     Response |-> AdvisoryMessage, ToolCalls |-> l.allToolCalls,
     ToolResults |-> l.allToolResults, Metadata |-> Metadata(l, stats)]

ErrorResultSwallowed == [returned |-> TRUE, err |-> "nil"]

\* line 165
ErrorResult == [returned |-> TRUE, err |-> "AI provider error"]

LoopGuardOffByOne(iteration) == iteration <= MaxToolIterations

\* line 159: for iteration < MaxToolIterations
LoopGuard(iteration) == iteration < MaxToolIterations

\* lines 159-163 and 281-295: enter the next iteration and call the Adapter, or stop
LoopHead(l, stats) ==
    IF LoopGuard(l.iteration)
    THEN [l EXCEPT !.iteration = @ + 1, !.pc = "AwaitingModel"]
    ELSE [l EXCEPT !.pc = "IterationLimitReached", !.result = LimitResponse(l, stats)]

FoldBackReplacingHistory(l, stats) ==
    LoopHead([l EXCEPT
                !.conversationHistory =
                    <<[Role |-> "assistant", Content |-> <<>>,
                       ToolResults |-> l.toolResults]>>,
                !.currentPrompt = formatToolResultsForPrompt(l.toolResults)],
             stats)

\* lines 271-278: fold the iteration's results back, then loop
FoldBack(l, stats) ==
    LoopHead([l EXCEPT
                !.conversationHistory =
                    Append(@, [Role |-> "assistant", Content |-> <<>>,
                               ToolResults |-> l.toolResults]),
                !.currentPrompt = formatToolResultsForPrompt(l.toolResults)],
             stats)

\* line 194: the range loop over aiResponse.ToolCalls
NextToolCall(l, stats) ==
    IF l.idx < Len(l.aiToolCalls)
    THEN [l EXCEPT !.idx = @ + 1, !.pc = "AwaitingTools"]
    ELSE FoldBack(l, stats)

RecordPrepending(l, tc, content, isError) ==
    [l EXCEPT
        !.toolResults = <<[ToolCallID |-> tc.ID, Content |-> content,
                           IsError |-> isError]>> \o @,
        !.allToolCalls = Append(@, [ID |-> tc.ID, Name |-> tc.Name,
                                    Arguments |-> tc.Arguments]),
        !.allToolResults = <<[ToolCallID |-> tc.ID, Name |-> tc.Name,
                              Content |-> content, IsError |-> isError]>> \o @]

\* lines 249-268
Record(l, tc, content, isError) ==
    [l EXCEPT
        !.toolResults = Append(@, [ToolCallID |-> tc.ID, Content |-> content,
                                   IsError |-> isError]),
        !.allToolCalls = Append(@, [ID |-> tc.ID, Name |-> tc.Name,
                                    Arguments |-> tc.Arguments]),
        !.allToolResults = Append(@, [ToolCallID |-> tc.ID, Name |-> tc.Name,
                                      Content |-> content, IsError |-> isError])]

\* line 217
ErrMsg(tc, err) == <<"error", "Error calling tool", tc.Name, err>>

RecordFailureDropped(l, tc, err) == l

\* lines 216-235: CallTool returned an error
RecordFailure(l, tc, err) ==
    [l EXCEPT
        !.toolResults = Append(@, [ToolCallID |-> tc.ID, Content |-> ErrMsg(tc, err),
                                   IsError |-> TRUE]),
        !.allToolResults = Append(@, [ToolCallID |-> tc.ID, Name |-> tc.Name,
                                      Content |-> ErrMsg(tc, err), IsError |-> TRUE])]

ShouldCacheAlways(isError) == TRUE

\* line 243: if !isError
ShouldCache(isError) == ~isError

\* lines 204-209: the cache holds a live entry for the invocation
OnHitCountedAsMiss(l, tc, cached) ==
    Record([l EXCEPT !.cacheMisses = @ + 1, !.lastOutcome = "hit"],
           tc, cached.Content, cached.IsError)

OnHitUncounted(l, tc, cached) ==
    Record([l EXCEPT !.lastOutcome = "hit"], tc, cached.Content, cached.IsError)

OnHit(l, tc, cached) ==
    Record([l EXCEPT !.cacheHits = @ + 1, !.lastOutcome = "hit"],
           tc, cached.Content, cached.IsError)

OnMissUncounted(l) == [l EXCEPT !.pc = "InCallTool"]

\* lines 210-215: no live entry, CallTool is called
OnMiss(l) == [l EXCEPT !.cacheMisses = @ + 1, !.pc = "InCallTool"]

(***************************************************************************)
(* What each call did, kept beside the program state                       *)
(***************************************************************************)
NoObs == [chats |-> 0, calls |-> 0, firstEmpty |-> 0, callsAtEmpty |-> 0,
          chatFailed |-> FALSE, clean |-> FALSE, emptyAtStart |-> FALSE, asked |-> 0]

\* a step that ends in AwaitingModel has called Adapter.Chat,
\* one that ends in InCallTool has called CallTool
Observe(o, l2) ==
    [o EXCEPT !.chats = IF l2.pc = "AwaitingModel" THEN @ + 1 ELSE @,
              !.calls = IF l2.pc = "InCallTool" THEN @ + 1 ELSE @,
              !.clean = IF l2.pc = "InCallTool" THEN TRUE ELSE @]

Choice(tc) == [Name |-> tc.Name, Arguments |-> tc.Arguments]

CurrentCall(l) == l.aiToolCalls[l.idx]

(***************************************************************************)
(* The cache and generateCacheKey used directly: values at rest            *)
(***************************************************************************)
CacheKeys ==
    {generateCacheKey(c.Name, c.Arguments) : c \in ToolCallChoices}

NoGet == [seq |-> 0, key |-> <<>>, at |-> 0, found |-> FALSE, entry |-> None]

NeverSet == [set |-> FALSE, Content |-> <<>>, IsError |-> FALSE, at |-> 0]

NoKeyIn == [toolName |-> "", A1 |-> <<>>, A2 |-> <<>>]

NoKeyOut == [done |-> FALSE, k1 |-> <<>>, k2 |-> <<>>]

\* no CreateResource under way, nothing in the repository, nothing pushed
NoCreation ==
    [pc |-> "idle", name |-> "", blueprintName |-> "", result |-> "none",
     saved |-> {}, pushed |-> {}, savedAtEntry |-> {}]

NoParse == [text |-> <<>>, done |-> FALSE, gemini |-> <<>>, glean |-> <<>>]

NoResolution ==
    [tool |-> "", args |-> <<>>, hit |-> FALSE, content |-> <<>>, isError |-> FALSE,
     produced |-> {}, fellBack |-> FALSE]

\* the goroutines that call the ResultCache: two request handlers and the
\* goroutine that NewResultCache starts for cleanupExpired (line 43)
LockUsers == {"g1", "g2", "sweeper"}

CacheCallers == {"g1", "g2"}

OutOfCache ==
    [pc |-> "out", op |-> "none", key |-> <<>>, holds |-> "none",
     at |-> 0, seen |-> {}, count |-> 0]

\* the map of pointers before any Set: no object allocated, no key mapped,
\* no pointer handed out
NoRefs ==
    [objects |-> <<>>, at |-> [k \in CacheKeys |-> 0], held |-> 0,
     seen |-> [Content |-> <<>>, Timestamp |-> 0, IsError |-> FALSE]]

\* the goroutines that use Client.call
Callers0 == {"a", "b"}

CallerIdle == [pc |-> "idle", id |-> 0, result |-> "none", gotId |-> 0]

ReaderScanning == [pc |-> "scanning", id |-> 0, kind |-> "none"]

\* the goroutines that use the Client's methods
Users == {"u1", "u2"}

Transports == {"http", "stdio"}

\* the tool list the endpoint may switch to while the Client lives
LaterCatalog == {"list_blueprints"}

\* the operations started on one Client
MaxOps == 3

\* the names CallTool is asked for
ToolNames == {"list_blueprints", "no_such_tool"}

UserIdle ==
    [pc |-> "idle", op |-> "none", name |-> "", result |-> "none", value |-> {},
     late |-> FALSE, initResult |-> "none", initAtEntry |-> FALSE, sentAtEntry |-> 0]

NoCatalogYet == [set |-> FALSE, value |-> {}]

\* the Client as NewClient leaves it (api.go lines 118-135 and 254-298): not
\* initialized, an empty catalog
NewSessionOver(trs) ==
    /\ initialized = FALSE
    /\ tools = {}
    /\ mu = "free"
    /\ user = [u \in Users |-> UserIdle]
    /\ endpoint \in {[transport |-> tr, tools |-> Range(Catalog), handshakesSent |-> 0,
                      dispatched |-> {}] : tr \in trs}
    /\ hist = [ops |-> 0, handshakesOK |-> 0, unknownDispatched |-> FALSE,
               first |-> NoCatalogYet, handshakeDone |-> FALSE, sentBeforeDone |-> FALSE]

\* main.go builds the HTTP Client
NewSession == NewSessionOver({"http"})

(***************************************************************************)
(* Init and the actions                                                    *)
(***************************************************************************)
\* NewResultCache(CacheTTL), lines 36-46 and 128
NewResultCache ==
    /\ store = <<>>
    /\ ttl = CacheTTL
    /\ now = 0

\* no ProcessPrompt has been called yet
NoRequests(ws) ==
    /\ loc = [t \in Tasks |-> Idle]
    /\ obs = [t \in Tasks |-> NoObs]
    /\ lastFailed = [c \in ToolCallChoices |-> FALSE]
    /\ failedSinceLookup = [c \in ToolCallChoices |-> FALSE]
    /\ workload \in ws
    /\ failures = 0

NoCacheUser ==
    /\ got = NoGet
    /\ lastSet = [k \in CacheKeys |-> NeverSet]
    /\ inCache = [g \in LockUsers |-> OutOfCache]
    /\ refs = NoRefs

NoKeyUser ==
    /\ keyIn = NoKeyIn
    /\ keyOut = NoKeyOut
    /\ resolution = NoResolution
    /\ parse = NoParse
    /\ creation = NoCreation

\* the stdio Client as NewClient leaves it, lines 254-298: the server started,
\* the reader scanning, nothing sent
NewClient ==
    /\ requestID = 0
    /\ pendingCalls = {}
    /\ chan = <<>>
    /\ caller = [c \in Callers0 |-> CallerIdle]
    /\ reader = ReaderScanning
    /\ stdin = <<>>
    /\ stdout = <<>>
    /\ serverUp = TRUE
    /\ noise = 0

Init ==
    /\ NewResultCache
    /\ NoRequests(Workloads)
    /\ NoCacheUser
    /\ NoKeyUser
    /\ NewClient
    /\ NewSession

\* ProcessPrompt is called: lines 147-163, up to the first Chat
Start(t) ==
    /\ loc[t].pc = "Idle"
    /\ t \in Callers(workload)
    /\ LET l2 == LoopHead(Entry(t), Stats(store))
       IN /\ loc' = [loc EXCEPT ![t] = l2]
          /\ obs' = [obs EXCEPT ![t] =
                        Observe([@ EXCEPT !.emptyAtStart = (DOMAIN store = {})], l2)]
    /\ UNCHANGED <<store, ttl, now, lastFailed, failedSinceLookup, workload, failures>>
    /\ UNCHANGED <<cacheUserVars, keyVars, clientVars, sessionVars>>

\* Chat returns a response without tool calls: lines 163-190; the Adapters pass
\* ctx to their client, which returns no response once ctx is done
ChatReturnsFinal(t) ==
    /\ loc[t].pc = "AwaitingModel"
    /\ ~loc[t].ctxDone
    /\ LET content == Text(t, obs[t].chats)
           l1 == [loc[t] EXCEPT !.conversationHistory =
                      Append(@, [Role |-> "assistant", Content |-> content,
                                 ToolResults |-> <<>>])]
           l2 == [l1 EXCEPT !.pc = "Done",
                            !.result = DoneResponse(l1, content, Stats(store))]
       IN /\ loc' = [loc EXCEPT ![t] = l2]
          /\ obs' = [obs EXCEPT ![t] = [@ EXCEPT !.firstEmpty = obs[t].chats,
                                                 !.callsAtEmpty = obs[t].calls]]
    /\ UNCHANGED <<store, ttl, now, lastFailed, failedSinceLookup, workload, failures>>
    /\ UNCHANGED <<cacheUserVars, keyVars, clientVars, sessionVars>>

\* Chat returns a response with tool calls: lines 163-194
ChatReturnsToolCalls(t) ==
    /\ loc[t].pc = "AwaitingModel"
    /\ ~loc[t].ctxDone
    /\ loc[t].iteration <= ToolTurns(workload)
    /\ \E choices \in Responses(workload) :
         LET content == Text(t, obs[t].chats)
             l2 == [loc[t] EXCEPT
                      !.conversationHistory =
                          Append(@, [Role |-> "assistant", Content |-> content,
                                     ToolResults |-> <<>>]),
                      !.aiToolCalls = WithIDs(choices, 1),
                      !.idx = 1,
                      !.toolResults = <<>>,
                      !.pc = "AwaitingTools"]
         IN /\ loc' = [loc EXCEPT ![t] = l2]
            /\ obs' = [obs EXCEPT ![t].asked = @ + Len(choices)]
    /\ UNCHANGED <<store, ttl, now, lastFailed, failedSinceLookup, workload, failures>>
    /\ UNCHANGED <<cacheUserVars, keyVars, clientVars, sessionVars>>

\* Chat fails: lines 163-166
ChatFails(t) ==
    /\ loc[t].pc = "AwaitingModel"
    /\ loc' = [loc EXCEPT ![t] = [@ EXCEPT !.pc = "Failed", !.result = ErrorResult]]
    /\ obs' = [obs EXCEPT ![t] = [@ EXCEPT !.chatFailed = TRUE]]
    /\ UNCHANGED <<store, ttl, now, lastFailed, failedSinceLookup, workload, failures>>
    /\ UNCHANGED <<cacheUserVars, keyVars, clientVars, sessionVars>>

\* the next invocation finds a live cache entry: lines 198-209 and 249-268
LookupHit(t) ==
    /\ loc[t].pc = "AwaitingTools"
    /\ LET tc == CurrentCall(loc[t])
           cached == CacheGet(store, generateCacheKey(tc.Name, tc.Arguments), now)
           l2 == NextToolCall(OnHit(loc[t], tc, cached.entry), Stats(store))
       IN /\ cached.found
          /\ loc' = [loc EXCEPT ![t] = l2]
          /\ obs' = [obs EXCEPT ![t] = Observe(@, l2)]
          /\ lastFailed' = [lastFailed EXCEPT ![Choice(tc)] = @ \/ cached.entry.IsError]
          /\ failedSinceLookup' =
                [failedSinceLookup EXCEPT ![Choice(tc)] = @ \/ cached.entry.IsError]
    /\ UNCHANGED <<store, ttl, now, workload, failures>>
    /\ UNCHANGED <<cacheUserVars, keyVars, clientVars, sessionVars>>

\* the next invocation finds none and calls the tool: lines 198-215
LookupMiss(t) ==
    /\ loc[t].pc = "AwaitingTools"
    /\ LET tc == CurrentCall(loc[t])
           cached == CacheGet(store, generateCacheKey(tc.Name, tc.Arguments), now)
           l2 == OnMiss(loc[t])
       IN /\ ~cached.found
          /\ loc' = [loc EXCEPT ![t] = l2]
          /\ obs' = [obs EXCEPT ![t] = Observe(@, l2)]
    /\ UNCHANGED <<store, ttl, now, lastFailed, failedSinceLookup, workload, failures>>
    /\ UNCHANGED <<cacheUserVars, keyVars, clientVars, sessionVars>>

\* CallTool returns an error: lines 215-235
ToolCallFails(t) ==
    /\ loc[t].pc = "InCallTool"
    /\ failures < MaxFailures
    /\ failures' = failures + 1
    /\ LET tc == CurrentCall(loc[t])
           l1 == RecordFailure([loc[t] EXCEPT !.lastOutcome = "transportError"],
                               tc, CallToolErr(tc.Name))
           l2 == NextToolCall(l1, Stats(store))
       IN /\ loc' = [loc EXCEPT ![t] = l2]
          /\ obs' = [obs EXCEPT ![t] = Observe(@, l2)]
          /\ lastFailed' = [lastFailed EXCEPT ![Choice(tc)] = TRUE]
          /\ failedSinceLookup' =
                [failedSinceLookup EXCEPT ![Choice(tc)] = @ \/ obs[t].clean]
    /\ UNCHANGED <<store, ttl, now, workload>>
    /\ UNCHANGED <<cacheUserVars, keyVars, clientVars, sessionVars>>

\* CallTool returns a result, a success or a tool-level error: lines 215-268
ToolCallReturns(t) ==
    /\ loc[t].pc = "InCallTool"
    /\ \E outcome \in {"ok", "toolError"} :
         /\ outcome = "toolError" => failures < MaxFailures
         /\ failures' = IF outcome = "toolError" THEN failures + 1 ELSE failures
         /\ LET tc == CurrentCall(loc[t])
                mcpResult == CallToolResult(tc.Name, outcome)
                resultContent == formatToolResult(mcpResult)
                isError == mcpResult.IsError
                store2 == IF ShouldCache(isError)
                          THEN CacheSet(store, generateCacheKey(tc.Name, tc.Arguments),
                                        resultContent, isError, now)
                          ELSE store
                l1 == Record([loc[t] EXCEPT !.lastOutcome = outcome],
                             tc, resultContent, isError)
                l2 == NextToolCall(l1, Stats(store2))
            IN /\ store' = store2
               /\ loc' = [loc EXCEPT ![t] = l2]
               /\ obs' = [u \in Tasks |->
                            IF u = t THEN Observe(obs[t], l2)
                            ELSE IF /\ ~isError
                                    /\ loc[u].pc = "InCallTool"
                                    /\ Choice(CurrentCall(loc[u])) = Choice(tc)
                                 THEN [obs[u] EXCEPT !.clean = FALSE]
                                 ELSE obs[u]]
               /\ lastFailed' = [lastFailed EXCEPT ![Choice(tc)] = isError]
               /\ failedSinceLookup' =
                     [failedSinceLookup EXCEPT ![Choice(tc)] =
                         IF isError THEN @ \/ obs[t].clean ELSE FALSE]
    /\ UNCHANGED <<ttl, now, workload>>
    /\ UNCHANGED <<cacheUserVars, keyVars, clientVars, sessionVars>>

\* ProcessPrompt has returned and its caller has taken the result; the locals
\* of the call are gone
Return(t) ==
    /\ loc[t].result.returned
    /\ loc' = [loc EXCEPT ![t] = Idle]
    /\ obs' = [obs EXCEPT ![t] = NoObs]
    /\ UNCHANGED <<store, ttl, now, lastFailed, failedSinceLookup, workload, failures>>
    /\ UNCHANGED <<cacheUserVars, keyVars, clientVars, sessionVars>>

\* a minute passes
Tick ==
    /\ now < Horizon(workload)
    /\ now' = now + 1
    /\ UNCHANGED <<store, ttl, loc, obs, lastFailed, failedSinceLookup, workload, failures>>
    /\ UNCHANGED <<cacheUserVars, keyVars, clientVars, sessionVars>>

\* the ticker of cleanupExpired fires: lines 83-92
Sweep ==
    /\ store' = CacheSweep(store, now)
    /\ UNCHANGED <<ttl, now, loc, obs, lastFailed, failedSinceLookup, workload, failures>>
    /\ UNCHANGED <<cacheUserVars, keyVars, clientVars, sessionVars>>

Next ==
    \/ \E t \in Tasks : Start(t)
    \/ \E t \in Tasks : ChatReturnsFinal(t)
    \/ \E t \in Tasks : ChatReturnsToolCalls(t)
    \/ \E t \in Tasks : ChatFails(t)
    \/ \E t \in Tasks : LookupHit(t)
    \/ \E t \in Tasks : LookupMiss(t)
    \/ \E t \in Tasks : ToolCallFails(t)
    \/ \E t \in Tasks : ToolCallReturns(t)
    \/ \E t \in Tasks : Return(t)
    \/ Tick
    \/ Sweep

Spec == Init /\ [][Next]_vars

(***************************************************************************)
(* One ProcessPrompt call whose context may be cancelled and whose CallTool *)
(* may get no answer                                                       *)
(***************************************************************************)
RequestInit ==
    /\ NewResultCache
    /\ NoRequests({"serial"})
    /\ NoCacheUser
    /\ NoKeyUser
    /\ NewClient
    /\ NewSession

\* the caller of ProcessPrompt cancels ctx (the HTTP request is abandoned)
Cancel(t) ==
    /\ loc[t].pc # "Idle"
    /\ ~loc[t].result.returned
    /\ ~loc[t].ctxDone
    /\ loc' = [loc EXCEPT ![t].ctxDone = TRUE]
    /\ UNCHANGED <<store, ttl, now, obs, lastFailed, failedSinceLookup, workload,
                   failures>>
    /\ UNCHANGED <<cacheUserVars, keyVars, clientVars, sessionVars>>

\* the endpoint never answers the tools/call of this CallTool: Client.CallTool
\* runs under context.Background() with no deadline (api.go lines 194-200), and
\* line 215 of ProcessPrompt waits for it
ToolCallStalls(t) ==
    /\ loc[t].pc = "InCallTool"
    /\ loc' = [loc EXCEPT ![t].pc = "CallToolStalled"]
    /\ UNCHANGED <<store, ttl, now, obs, lastFailed, failedSinceLookup, workload,
                   failures>>
    /\ UNCHANGED <<cacheUserVars, keyVars, clientVars, sessionVars>>

RequestNext ==
    \/ \E t \in Tasks : Start(t)
    \/ \E t \in Tasks : ChatReturnsFinal(t)
    \/ \E t \in Tasks : ChatReturnsToolCalls(t)
    \/ \E t \in Tasks : ChatFails(t)
    \/ \E t \in Tasks : LookupHit(t)
    \/ \E t \in Tasks : LookupMiss(t)
    \/ \E t \in Tasks : ToolCallFails(t)
    \/ \E t \in Tasks : ToolCallReturns(t)
    \/ \E t \in Tasks : Return(t)
    \/ \E t \in Tasks : Cancel(t)
    \/ \E t \in Tasks : ToolCallStalls(t)

\* every step the program or its environment can take is eventually taken
RequestSpec == RequestInit /\ [][RequestNext]_vars /\ WF_vars(RequestNext)

(***************************************************************************)
(* The cache used directly: any caller may Get and Set any key with any    *)
(* content and flag at any time, while the clock runs and the sweep fires  *)
(***************************************************************************)
\* what the caller stores: a result, or an error result
CacheValues ==
    { [Content |-> <<"text", "[]">>, IsError |-> FALSE],
      [Content |-> <<"text", "tool failed">>, IsError |-> TRUE] }

CacheInit ==
    /\ NewResultCache
    /\ NoRequests({"serial"})
    /\ NoCacheUser
    /\ NoKeyUser
    /\ NewClient
    /\ NewSession

\* ResultCache.Get, lines 49-64
Get(key) ==
    /\ got' = [seq |-> 1 - got.seq, key |-> key, at |-> now,
               found |-> CacheGet(store, key, now).found,
               entry |-> CacheGet(store, key, now).entry]
    /\ UNCHANGED <<store, ttl, now, lastSet, inCache, refs, orchVars, keyVars, clientVars,
                   sessionVars>>

\* ResultCache.Set, lines 67-76
Set(key, content, isError) ==
    /\ store' = CacheSet(store, key, content, isError, now)
    /\ lastSet' = [lastSet EXCEPT ![key] =
                      [set |-> TRUE, Content |-> content, IsError |-> isError,
                       at |-> now]]
    /\ UNCHANGED <<ttl, now, got, inCache, refs, orchVars, keyVars, clientVars,
                   sessionVars>>

\* the ticker of cleanupExpired fires, lines 83-92
CleanupExpired ==
    /\ store' = CacheSweep(store, now)
    /\ UNCHANGED <<ttl, now, cacheUserVars, orchVars, keyVars, clientVars, sessionVars>>

\* a minute passes
Minute ==
    /\ now < MaxTime
    /\ now' = now + 1
    /\ UNCHANGED <<store, ttl, cacheUserVars, orchVars, keyVars, clientVars, sessionVars>>

CacheNext ==
    \/ \E k \in CacheKeys : Get(k)
    \/ \E k \in CacheKeys, v \in CacheValues : Set(k, v.Content, v.IsError)
    \/ CleanupExpired
    \/ Minute

CacheSpec == CacheInit /\ [][CacheNext]_vars

\* C6: Get(key) returns (entry, true) exactly when an entry is stored under
\* key and now - createdAt <= ttl, and then returns that entry; an entry older
\* than ttl is not returned even while the sweep has not removed it.
GetReturnsLiveEntriesOnly ==
    [][got' # got
         => LET k == got'.key
            IN /\ got'.found <=> (k \in DOMAIN store /\ now - store[k].Timestamp <= ttl)
               /\ got'.found => got'.entry = store[k]]_vars

ExpiredUnsweptEntryNotReturned ==
    /\ got.seq = 1
    /\ ~got.found
    /\ got.at = now
    /\ got.key \in DOMAIN store
    /\ now - store[got.key].Timestamp > ttl

\* C7: a Get on k within ttl of the latest Set on k returns that Set's content
\* with true; a Get more than ttl after the latest Set on k returns false; each
\* Set on k starts the ttl window of k anew.
TTLWindowFromLatestSet ==
    [][got' # got
         => LET w == lastSet[got'.key]
            IN /\ got'.found <=> (w.set /\ now - w.at <= ttl)
               /\ got'.found => /\ got'.entry.Content = w.Content
                                /\ got'.entry.IsError = w.IsError
                                /\ got'.entry.Timestamp = w.at]_vars

HitInRestartedWindow ==
    /\ got.found
    /\ got.at > ttl
    /\ got.at - lastSet[got.key].at = ttl

(***************************************************************************)
(* generateCacheKey on its own: a tool name and two enumerations of        *)
(* argument maps come in, the two keys go out                              *)
(***************************************************************************)
ArgKeys == {"kind", "name", "ns"}

ArgValues == {"x", "y"}

\* the enumerations of the Go maps with at most n entries
ArgEnumerations(n) ==
    UNION {{a \in [1..k -> ArgKeys \X ArgValues] :
               \A i, j \in 1..k : i # j => a[i][1] # a[j][1]} : k \in 0..n}

KeyInit ==
    /\ NewResultCache
    /\ NoRequests({"serial"})
    /\ NoCacheUser
    /\ keyIn \in [toolName : Range(Catalog),
                  A1 : ArgEnumerations(MaxArgs), A2 : ArgEnumerations(MaxArgs)]
    /\ keyOut = NoKeyOut
    /\ resolution = NoResolution
    /\ parse = NoParse
    /\ creation = NoCreation
    /\ NewClient
    /\ NewSession

GenerateKeys ==
    /\ ~keyOut.done
    /\ keyOut' = [done |-> TRUE,
                  k1 |-> generateCacheKey(keyIn.toolName, keyIn.A1),
                  k2 |-> generateCacheKey(keyIn.toolName, keyIn.A2)]
    /\ UNCHANGED <<store, ttl, now, orchVars, cacheUserVars, keyIn, resolution, parse,
                   creation, clientVars, sessionVars>>

KeyNext == GenerateKeys

KeySpec == KeyInit /\ [][KeyNext]_vars

\* C8: two argument maps with the same key/value pairs get the same cache key
\* for the same tool, in whatever order each map is enumerated.
CacheKeyDeterminism ==
    (keyOut.done /\ Range(keyIn.A1) = Range(keyIn.A2)) => keyOut.k1 = keyOut.k2

SameMapTwoOrders ==
    /\ keyOut.done
    /\ Len(keyIn.A1) = 2
    /\ keyIn.A1 # keyIn.A2
    /\ Range(keyIn.A1) = Range(keyIn.A2)
    /\ keyOut.k1 = keyOut.k2

\* the digest keeps apart the maps and tools of this model, as SHA-256 does
DigestSeparates ==
    (keyOut.done /\ Range(keyIn.A1) # Range(keyIn.A2)) => keyOut.k1 # keyOut.k2

(***************************************************************************)
(* The stdio Client: call, readResponses, Close, and the server process    *)
(* behind the pipes                                                        *)
(***************************************************************************)
ClientInit ==
    /\ NewResultCache
    /\ NoRequests({"serial"})
    /\ NoCacheUser
    /\ NoKeyUser
    /\ NewClient
    /\ NewSession

nonClientVars == <<store, ttl, now, orchVars, cacheUserVars, keyVars, sessionVars>>

NextIDReused(r) == 1

\* line 415: c.requestID.Add(1)
NextID(r) == r + 1

UnregisterNever(table, id) == table

\* lines 422-426: the deferred delete(c.pendingCalls, id)
Unregister(table, id) == table \ {id}

\* call, lines 415-420: take the next id, make the channel, enter it in the table
CallRegisters(c) ==
    /\ caller[c].pc = "idle"
    /\ requestID < MaxRequests
    /\ requestID' = NextID(requestID)
    /\ chan' = [i \in DOMAIN chan \cup {NextID(requestID)} |->
                   IF i = NextID(requestID) THEN <<>> ELSE chan[i]]
    /\ pendingCalls' = pendingCalls \cup {NextID(requestID)}
    /\ caller' = [caller EXCEPT ![c] =
                     [CallerIdle EXCEPT !.pc = "registered", !.id = NextID(requestID)]]
    /\ UNCHANGED <<reader, stdin, stdout, serverUp, noise, nonClientVars>>

\* call, lines 440 and 444: the request is written and the caller waits
CallWrites(c) ==
    /\ caller[c].pc = "registered"
    /\ serverUp
    /\ stdin' = Append(stdin, caller[c].id)
    /\ caller' = [caller EXCEPT ![c].pc = "waiting"]
    /\ UNCHANGED <<requestID, pendingCalls, chan, reader, stdout, serverUp, noise,
                   nonClientVars>>

\* call, lines 440-442 and 422-426: the write fails, the entry is removed and
\* the caller gets the error
CallWriteFails(c) ==
    /\ caller[c].pc = "registered"
    /\ ~serverUp
    /\ pendingCalls' = Unregister(pendingCalls, caller[c].id)
    /\ caller' = [caller EXCEPT ![c] = [@ EXCEPT !.pc = "idle",
                                                !.result = "writeError"]]
    /\ UNCHANGED <<requestID, chan, reader, stdin, stdout, serverUp, noise,
                   nonClientVars>>

\* call, line 444: the response arrives on the caller's channel
CallReceives(c) ==
    /\ caller[c].pc = "waiting"
    /\ chan[caller[c].id] # <<>>
    /\ chan' = [chan EXCEPT ![caller[c].id] = Tail(@)]
    /\ caller' = [caller EXCEPT ![c] =
                     [@ EXCEPT !.pc = "received",
                               !.gotId = Head(chan[caller[c].id]).id,
                               !.result = IF Head(chan[caller[c].id]).kind = "error"
                                          THEN "rpcError" ELSE "ok"]]
    /\ UNCHANGED <<requestID, pendingCalls, reader, stdin, stdout, serverUp, noise,
                   nonClientVars>>

\* call, lines 446-450 and 422-426: the entry is removed and call returns
CallReturns(c) ==
    /\ caller[c].pc = "received"
    /\ pendingCalls' = Unregister(pendingCalls, caller[c].id)
    /\ caller' = [caller EXCEPT ![c].pc = "idle"]
    /\ UNCHANGED <<requestID, chan, reader, stdin, stdout, serverUp, noise,
                   nonClientVars>>

\* the server answers the oldest request with a result or a JSON-RPC error
ServerAnswers ==
    /\ serverUp
    /\ stdin # <<>>
    /\ \E kind \in {"result", "error"} :
          stdout' = Append(stdout, [idType |-> "number", id |-> Head(stdin),
                                    kind |-> kind])
    /\ stdin' = Tail(stdin)
    /\ UNCHANGED <<requestID, pendingCalls, chan, caller, reader, serverUp, noise,
                   nonClientVars>>

\* the lines that answer nothing: not JSON, not JSON and longer than the 64 KiB
\* a bufio.Scanner takes as one token, an id of another type, a response for an
\* id that was already answered or never sent, a notification
NoiseLines ==
    {[idType |-> "none", id |-> 0, kind |-> "malformed"],
     [idType |-> "none", id |-> 0, kind |-> "oversized"],
     [idType |-> "string", id |-> 0, kind |-> "result"],
     [idType |-> "nil", id |-> 0, kind |-> "result"]}
    \cup {[idType |-> "number", id |-> i, kind |-> "result"] : i \in 1..MaxRequests}

ServerWritesNoise ==
    /\ serverUp
    /\ noise < MaxNoise
    /\ noise' = noise + 1
    /\ \E line \in NoiseLines : stdout' = Append(stdout, line)
    /\ UNCHANGED <<requestID, pendingCalls, chan, caller, reader, stdin, serverUp,
                   nonClientVars>>

\* the server process ends: it crashes, or Close kills it (lines 515-523); what
\* it wrote stays in the pipe, then the reader finds the end of the stream
ServerExits ==
    /\ serverUp
    /\ serverUp' = FALSE
    /\ stdin' = <<>>
    /\ UNCHANGED <<requestID, pendingCalls, chan, caller, reader, stdout, noise,
                   nonClientVars>>

\* readResponses, lines 475-497 and 499-503: a line that is dropped
ReaderSkips ==
    /\ reader.pc = "scanning"
    /\ stdout # <<>>
    /\ Head(stdout).kind # "oversized"
    /\ \/ Head(stdout).kind = "malformed"
       \/ Head(stdout).idType \in {"nil", "string"}
       \/ Head(stdout).idType = "number" /\ Head(stdout).id \notin pendingCalls
    /\ stdout' = Tail(stdout)
    /\ UNCHANGED <<requestID, pendingCalls, chan, caller, reader, stdin, serverUp,
                   noise, nonClientVars>>

\* readResponses, lines 475-503: a response whose id is in the table
ReaderLooksUp ==
    /\ reader.pc = "scanning"
    /\ stdout # <<>>
    /\ Head(stdout).kind \notin {"malformed", "oversized"}
    /\ Head(stdout).idType = "number"
    /\ Head(stdout).id \in pendingCalls
    /\ reader' = [reader EXCEPT !.pc = "delivering", !.id = Head(stdout).id,
                                 !.kind = Head(stdout).kind]
    /\ stdout' = Tail(stdout)
    /\ UNCHANGED <<requestID, pendingCalls, chan, caller, stdin, serverUp, noise,
                   nonClientVars>>

\* readResponses, line 504: the send on the channel, of capacity 1
ReaderDelivers ==
    /\ reader.pc = "delivering"
    /\ Len(chan[reader.id]) < 1
    /\ chan' = [chan EXCEPT ![reader.id] =
                   Append(@, [id |-> reader.id, kind |-> reader.kind])]
    /\ reader' = [reader EXCEPT !.pc = "scanning", !.id = 0, !.kind = "none"]
    /\ UNCHANGED <<requestID, pendingCalls, caller, stdin, stdout, serverUp, noise,
                   nonClientVars>>

\* readResponses, lines 475 and 509-512: Scan finds the end of the stream and
\* the goroutine returns
ReaderExits ==
    /\ reader.pc = "scanning"
    /\ stdout = <<>>
    /\ ~serverUp
    /\ reader' = [reader EXCEPT !.pc = "exited"]
    /\ UNCHANGED <<requestID, pendingCalls, chan, caller, stdin, stdout, serverUp,
                   noise, nonClientVars>>

\* readResponses, lines 282, 475 and 509-512: the scanner was made with
\* bufio.NewScanner and its default buffer, so Scan returns false with
\* ErrTooLong on a line of more than 64 KiB; the error is printed and the
\* goroutine returns
ReaderStopsOnLongLine ==
    /\ reader.pc = "scanning"
    /\ stdout # <<>>
    /\ Head(stdout).kind = "oversized"
    /\ stdout' = Tail(stdout)
    /\ reader' = [reader EXCEPT !.pc = "scanFailed"]
    /\ UNCHANGED <<requestID, pendingCalls, chan, caller, stdin, serverUp, noise,
                   nonClientVars>>

ClientNext ==
    \/ \E c \in Callers0 : CallRegisters(c)
    \/ \E c \in Callers0 : CallWrites(c)
    \/ \E c \in Callers0 : CallWriteFails(c)
    \/ \E c \in Callers0 : CallReceives(c)
    \/ \E c \in Callers0 : CallReturns(c)
    \/ ServerAnswers
    \/ ServerWritesNoise
    \/ ServerExits
    \/ ReaderSkips
    \/ ReaderLooksUp
    \/ ReaderDelivers
    \/ ReaderExits
    \/ ReaderStopsOnLongLine

ClientSpec == ClientInit /\ [][ClientNext]_vars

\* C3: once the reader has reached the end of the stream, every caller that
\* still waits in call() has an answer in its delivery channel, so it is
\* unblocked (with a transport error) instead of waiting forever.
PendingCallersUnblockedAtClose ==
    reader.pc = "exited"
      => \A c \in Callers0 :
            caller[c].pc = "waiting" => chan[caller[c].id] # <<>>

\* the lines readResponses drops
BadLine(line) ==
    \/ line.kind \in {"malformed", "oversized"}
    \/ line.idType \in {"nil", "string"}
    \/ line.idType = "number" /\ line.id \notin pendingCalls

Active(c) == caller[c].pc \in {"registered", "waiting", "received"}

\* C18: every call takes an id greater than every id taken before, so no two
\* calls share an id or a channel; a channel holds only responses that carry
\* its id, and a caller receives only a response that carries its own id.
ResponsesReachTheirCaller ==
    [][/\ requestID' >= requestID
       /\ \A c \in Callers0 :
             /\ caller'[c].id # caller[c].id
                   => /\ caller'[c].id > requestID
                      /\ caller'[c].id = requestID'
                      /\ \A d \in Callers0 \ {c} : caller'[d].id # caller'[c].id
                      /\ chan'[caller'[c].id] = <<>>
             /\ (caller'[c].pc = "received" /\ caller[c].pc = "waiting")
                   => caller'[c].gotId = caller[c].id
       /\ \A i \in DOMAIN chan' :
             \A k \in 1..Len(chan'[i]) : chan'[i][k].id = i]_vars

\* two calls in flight at once, each with its own response
TwoCallersEachAnswered ==
    /\ caller["a"].pc = "received"
    /\ caller["b"].pc = "received"
    /\ caller["a"].id # caller["b"].id
    /\ requestID >= 3

MalformedInputNotFatal ==
    [][/\ (reader.pc = "scanning" /\ stdout # <<>> /\ stdout' = Tail(stdout)
           /\ BadLine(Head(stdout)))
             => /\ reader'.pc = "scanning"
                /\ pendingCalls' = pendingCalls
                /\ chan' = chan
                /\ caller' = caller
       /\ (reader.pc = "scanning" /\ stdout # <<>> /\ stdout' = Tail(stdout)
           /\ ~BadLine(Head(stdout)))
             => /\ reader'.pc = "delivering"
                /\ reader'.id = Head(stdout).id
       /\ (reader.pc = "scanning" /\ reader'.pc \in {"exited", "scanFailed"})
             => (~serverUp /\ stdout = <<>>)]_vars

(***************************************************************************)
(* The Client's methods: Initialize, ListTools, CallTool and GetTools, used *)
(* by several goroutines over either transport                             *)
(***************************************************************************)
SessionInit ==
    /\ NewResultCache
    /\ NoRequests({"serial"})
    /\ NoCacheUser
    /\ NoKeyUser
    /\ NewClient
    /\ NewSessionOver(Transports)

nonSessionVars == <<store, ttl, now, orchVars, cacheUserVars, keyVars, clientVars>>

AlreadyInitializedIgnored(flag) == FALSE

\* lines 142-144 and 305-307: if c.initialized { return nil }
AlreadyInitialized(flag) == flag

\* a method returns to its caller
Returned(r, result, value, late) ==
    [r EXCEPT !.pc = "returned", !.result = result, !.value = value, !.late = late]

\* Initialize returns: to its caller, or into the ListTools or CallTool that
\* called it (lines 167-171, 188-192, 347-351, 377-381)
AfterInitialize(r, ok) ==
    LET r1 == [r EXCEPT !.initResult = IF ok THEN "ok" ELSE "error"]
    IN IF ~ok THEN Returned(r1, "error", {}, FALSE)
       ELSE IF r.op = "Initialize" THEN Returned(r1, "ok", {}, FALSE)
       ELSE [r1 EXCEPT !.pc = "send"]

\* Initialize is entered: what the flag and the endpoint's count are then
EnterInitialize(r) ==
    [r EXCEPT !.pc = "init.lock", !.initAtEntry = initialized,
              !.sentAtEntry = endpoint.handshakesSent]

\* a goroutine calls one of the methods
StartOp(u) ==
    /\ user[u].pc \in {"idle", "returned"}
    /\ hist.ops < MaxOps
    /\ hist' = [hist EXCEPT !.ops = @ + 1]
    /\ \E op \in {"Initialize", "ListTools", "CallTool", "GetTools"}, name \in ToolNames :
          /\ (op # "CallTool") => name = "list_blueprints"
          /\ LET r == [UserIdle EXCEPT !.op = op,
                                       !.name = IF op = "CallTool" THEN name ELSE ""]
             IN user' = [user EXCEPT ![u] =
                            IF op = "Initialize" THEN EnterInitialize(r)
                            ELSE IF op = "GetTools" THEN [r EXCEPT !.pc = "get"]
                            ELSE [r EXCEPT !.pc = "check"]]
    /\ UNCHANGED <<initialized, tools, mu, endpoint, nonSessionVars>>

\* ListTools and CallTool, lines 167 and 188 (347 and 377): c.initialized is read
\* without the mutex, so the read may miss a write of another goroutine
CheckInitialized(u) ==
    /\ user[u].pc = "check"
    /\ \E seen \in {initialized, FALSE} :
          user' = [user EXCEPT ![u] = IF seen THEN [@ EXCEPT !.pc = "send"]
                                      ELSE EnterInitialize(@)]
    /\ UNCHANGED <<initialized, tools, mu, endpoint, hist, nonSessionVars>>

\* Initialize, lines 139 and 302: c.mu.Lock()
InitializeLocks(u) ==
    /\ user[u].pc = "init.lock"
    /\ mu = "free"
    /\ mu' = u
    /\ user' = [user EXCEPT ![u].pc = "init.locked"]
    /\ UNCHANGED <<initialized, tools, endpoint, hist, nonSessionVars>>

\* Initialize, lines 142-144 and 305-307: already initialized, nothing is sent
InitializeReturnsEarly(u) ==
    /\ user[u].pc = "init.locked"
    /\ AlreadyInitialized(initialized)
    /\ mu' = "free"
    /\ user' = [user EXCEPT ![u] = AfterInitialize(@, TRUE)]
    /\ UNCHANGED <<initialized, tools, endpoint, hist, nonSessionVars>>

\* Initialize, lines 146-154 and 309-318: the handshake is sent
InitializeHandshakes(u) ==
    /\ user[u].pc = "init.locked"
    /\ ~AlreadyInitialized(initialized)
    /\ endpoint' = [endpoint EXCEPT !.handshakesSent = @ + 1]
    /\ user' = [user EXCEPT ![u].pc = "init.wait"]
    /\ UNCHANGED <<initialized, tools, mu, hist, nonSessionVars>>

\* Initialize, lines 155-157 and 319-321: the handshake fails
HandshakeFails(u) ==
    /\ user[u].pc = "init.wait"
    /\ mu' = "free"
    /\ user' = [user EXCEPT ![u] = AfterInitialize(@, FALSE)]
    /\ UNCHANGED <<initialized, tools, endpoint, hist, nonSessionVars>>

\* Initialize, lines 159-162 and 323-335: the handshake succeeds and the flag
\* is set; the stdio Client has the notification left to send
HandshakeSucceeds(u) ==
    /\ user[u].pc = "init.wait"
    /\ initialized' = TRUE
    /\ hist' = [hist EXCEPT !.handshakesOK = @ + 1,
                            !.handshakeDone = @ \/ endpoint.transport = "http"]
    /\ IF endpoint.transport = "http"
       THEN /\ mu' = "free"
            /\ user' = [user EXCEPT ![u] = AfterInitialize(@, TRUE)]
       ELSE /\ mu' = mu
            /\ user' = [user EXCEPT ![u].pc = "init.notify"]
    /\ UNCHANGED <<tools, endpoint, nonSessionVars>>

\* Initialize of the stdio Client, lines 338-342: notifications/initialized is
\* written, or the write fails
NotifyReturns(u) ==
    /\ user[u].pc = "init.notify"
    /\ mu' = "free"
    /\ \E ok \in BOOLEAN :
          /\ user' = [user EXCEPT ![u] = AfterInitialize(@, ok)]
          /\ hist' = [hist EXCEPT !.handshakeDone = @ \/ ok]
    /\ UNCHANGED <<initialized, tools, endpoint, nonSessionVars>>

\* ListTools, lines 173-177 and 353-366: tools/list is answered, or fails
ListToolsCalls(u) ==
    /\ user[u].pc = "send"
    /\ user[u].op = "ListTools"
    /\ \E ok \in BOOLEAN :
          user' = [user EXCEPT ![u] =
                      IF ok THEN [@ EXCEPT !.pc = "list.store", !.value = endpoint.tools]
                      ELSE Returned(@, "error", {}, FALSE)]
    /\ hist' = [hist EXCEPT !.sentBeforeDone = @ \/ ~hist.handshakeDone]
    /\ UNCHANGED <<initialized, tools, mu, endpoint, nonSessionVars>>

\* ListTools, lines 179-183 and 368-372: the answer replaces c.tools and is returned
ListToolsStores(u) ==
    /\ user[u].pc = "list.store"
    /\ mu = "free"
    /\ tools' = user[u].value
    /\ hist' = [hist EXCEPT !.first = IF @.set THEN @
                                      ELSE [set |-> TRUE, value |-> user[u].value]]
    /\ user' = [user EXCEPT ![u] = Returned(@, "ok", user[u].value, TRUE)]
    /\ UNCHANGED <<initialized, mu, endpoint, nonSessionVars>>

\* CallTool, lines 194-205 and 383-403: tools/call is sent for the name as given
CallToolCalls(u) ==
    /\ user[u].pc = "send"
    /\ user[u].op = "CallTool"
    /\ endpoint' = [endpoint EXCEPT !.dispatched = @ \cup {user[u].name}]
    /\ hist' = [hist EXCEPT !.unknownDispatched = @ \/ user[u].name \notin tools,
                            !.sentBeforeDone = @ \/ ~hist.handshakeDone]
    /\ user' = [user EXCEPT ![u] =
                   Returned(@, IF user[u].name \in endpoint.tools THEN "ok" ELSE "error",
                            {}, FALSE)]
    /\ UNCHANGED <<initialized, tools, mu, nonSessionVars>>

\* GetTools, lines 209-213 and 407-411
GetTools(u) ==
    /\ user[u].pc = "get"
    /\ mu = "free"
    /\ user' = [user EXCEPT ![u] = Returned(@, "ok", tools, hist.first.set)]
    /\ UNCHANGED <<initialized, tools, mu, endpoint, hist, nonSessionVars>>

\* the endpoint's tool list changes
EndpointChangesTools ==
    /\ endpoint.tools # LaterCatalog
    /\ endpoint' = [endpoint EXCEPT !.tools = LaterCatalog]
    /\ UNCHANGED <<initialized, tools, mu, user, hist, nonSessionVars>>

SessionNext ==
    \/ \E u \in Users : StartOp(u)
    \/ \E u \in Users : CheckInitialized(u)
    \/ \E u \in Users : InitializeLocks(u)
    \/ \E u \in Users : InitializeReturnsEarly(u)
    \/ \E u \in Users : InitializeHandshakes(u)
    \/ \E u \in Users : HandshakeFails(u)
    \/ \E u \in Users : HandshakeSucceeds(u)
    \/ \E u \in Users : NotifyReturns(u)
    \/ \E u \in Users : ListToolsCalls(u)
    \/ \E u \in Users : ListToolsStores(u)
    \/ \E u \in Users : CallToolCalls(u)
    \/ \E u \in Users : GetTools(u)
    \/ EndpointChangesTools

SessionSpec == SessionInit /\ [][SessionNext]_vars

\* C15: a tools/call request is sent only for a name of the cached catalog; a
\* CallTool for any other name fails before anything is sent.
ToolValidatedBeforeDispatch == ~hist.unknownDispatched

\* C16: at most one handshake succeeds, and an Initialize entered after the
\* Client was initialized returns success without sending a handshake.
InitializeIdempotent ==
    /\ hist.handshakesOK <= 1
    /\ \A u \in Users :
          (user[u].initResult # "none" /\ user[u].initAtEntry)
             => /\ user[u].initResult = "ok"
                /\ endpoint.handshakesSent = user[u].sentAtEntry

\* an Initialize called on the initialized Client has returned, while another
\* goroutine went through Initialize as well
SecondInitializeReturned ==
    \E u \in Users, v \in Users :
        /\ u # v
        /\ user[u].op = "Initialize"
        /\ user[u].pc = "returned"
        /\ user[u].initAtEntry
        /\ user[v].initResult = "ok"
        /\ hist.handshakesOK = 1

\* C17: after the first successful ListTools, every ListTools and GetTools
\* returns the catalog that first ListTools returned.
CatalogCachedForLifetime ==
    \A u \in Users :
        (/\ user[u].pc = "returned"
         /\ user[u].op \in {"ListTools", "GetTools"}
         /\ user[u].result = "ok"
         /\ user[u].late)
           => user[u].value = hist.first.value

(***************************************************************************)
(* Properties of the orchestration loop and of the cache it shares         *)
(***************************************************************************)
KeyOf(c) == generateCacheKey(c.Name, c.Arguments)

Last(q) == q[Len(q)]

\* C1: a call whose Adapter answered every Chat with at least one invocation
\* ends in IterationLimitReached, after MaxToolIterations (5) Chat calls and
\* with iterations = 5 in its metadata; no call ever makes a sixth Chat.
LoopCeiling ==
    \A t \in Tasks :
        /\ obs[t].chats <= 5
        /\ (loc[t].result.returned /\ ~obs[t].chatFailed /\ obs[t].firstEmpty = 0)
              => /\ loc[t].pc = "IterationLimitReached"
                 /\ loc[t].result.max_reached
                 /\ obs[t].chats = 5
                 /\ loc[t].result.Metadata.iterations = 5

LoopCeilingReached ==
    \E t \in Tasks :
        /\ loc[t].pc = "IterationLimitReached"
        /\ obs[t].chats = 5
        /\ Len(loc[t].allToolResults) >= 5

\* C2: when the N-th Chat response is the first without invocations, the call
\* is Done with that response's text and iterations = N, and it has made no
\* Chat and no CallTool since that response.
LoopTermination ==
    \A t \in Tasks :
        obs[t].firstEmpty # 0
          => /\ obs[t].firstEmpty \in 1..5
             /\ loc[t].pc = "Done"
             /\ loc[t].result.returned
             /\ loc[t].result.err = "nil"
             /\ ~loc[t].result.max_reached
             /\ loc[t].result.Response = Text(t, obs[t].firstEmpty)
             /\ loc[t].result.Metadata.iterations = obs[t].firstEmpty
             /\ obs[t].chats = obs[t].firstEmpty
             /\ obs[t].calls = obs[t].callsAtEmpty

DoneAfterToolTurns ==
    \E t \in Tasks :
        /\ loc[t].pc = "Done"
        /\ obs[t].firstEmpty = 3
        /\ obs[t].calls >= 1

\* C4: Get never returns an entry whose IsError is true, whatever calls have
\* run and however they interleaved.
CacheErrorExclusion ==
    \A k \in DOMAIN store :
        CacheGet(store, k, now).found => ~CacheGet(store, k, now).entry.IsError

IsToolErrorResult(r) == r.IsError /\ r.Content[1] = "text"

IsTransportErrorResult(r) == r.IsError /\ r.Content[1] = "error"

ErrorsSeenAndCacheLive ==
    \E t \in Tasks :
        /\ \E i \in 1..Len(loc[t].allToolResults) :
              IsToolErrorResult(loc[t].allToolResults[i])
        /\ \E i \in 1..Len(loc[t].allToolResults) :
              IsTransportErrorResult(loc[t].allToolResults[i])
        /\ \E k \in DOMAIN store : CacheGet(store, k, now).found

\* C5 as stated: once an invocation of (tool, args) has resolved with an error
\* and no call of the same (tool, args) has succeeded since, a lookup of that
\* (tool, args) misses.
RetryAfterFailureAsStated ==
    \A c \in ToolCallChoices :
        lastFailed[c] => ~CacheGet(store, KeyOf(c), now).found

\* C5, amended: once an invocation of (tool, args) has resolved with an error
\* and no call of the same (tool, args) has succeeded since that invocation's
\* cache lookup, the next invocation of that (tool, args) is a cache miss and
\* calls the Protocol Client.
RetryAfterFailure ==
    [][\A t \in Tasks :
          (/\ loc[t].pc = "AwaitingTools"
           /\ loc'[t] # loc[t]
           /\ failedSinceLookup[Choice(CurrentCall(loc[t]))])
            => /\ loc'[t].pc = "InCallTool"
               /\ loc'[t].cacheMisses = loc[t].cacheMisses + 1
               /\ loc'[t].cacheHits = loc[t].cacheHits
               /\ obs'[t].calls = obs[t].calls + 1]_vars

RetriedAfterFailure ==
    \E t \in Tasks :
        /\ loc[t].pc = "InCallTool"
        /\ failedSinceLookup[Choice(CurrentCall(loc[t]))]
        /\ \E k \in DOMAIN store : CacheGet(store, k, now).found

\* C9: an invocation whose key has an unexpired entry is answered from the
\* cache: the entry's content and isError become its result, one hit and no
\* miss is counted, and CallTool is not called.
CacheHitReuse ==
    [][\A t \in Tasks :
          (/\ loc[t].pc = "AwaitingTools"
           /\ loc'[t] # loc[t]
           /\ CacheGet(store, KeyOf(CurrentCall(loc[t])), now).found)
            => LET tc == CurrentCall(loc[t])
                   entry == CacheGet(store, KeyOf(tc), now).entry
               IN /\ loc'[t].cacheHits = loc[t].cacheHits + 1
                  /\ loc'[t].cacheMisses = loc[t].cacheMisses
                  /\ obs'[t].calls = obs[t].calls
                  /\ loc'[t].pc # "InCallTool"
                  /\ loc'[t].allToolResults =
                        Append(loc[t].allToolResults,
                               [ToolCallID |-> tc.ID, Name |-> tc.Name,
                                Content |-> entry.Content,
                                IsError |-> entry.IsError])]_vars

\* a later call that repeats an earlier successful invocation within the TTL
RepeatedCallServedFromCache ==
    \E t \in Tasks :
        /\ loc[t].pc = "Done"
        /\ loc[t].result.Metadata.cache_hits = 1
        /\ loc[t].result.Metadata.cache_misses = 0
        /\ obs[t].calls = 0
        /\ Len(loc[t].result.ToolResults) = 1

\* C10: a transport error of CallTool for an invocation adds exactly one result
\* for it to the trace, with isError true and the failure in its content; the
\* call does not fail, goes on to the remaining invocations of the iteration
\* and then to the next Chat or to the iteration ceiling.
TransportErrorAbsorbed ==
    [][\A t \in Tasks :
          (/\ loc[t].pc = "InCallTool"
           /\ loc'[t] # loc[t]
           /\ failures' = failures + 1
           /\ store' = store
           /\ loc'[t].lastOutcome = "transportError")
            => LET tc == CurrentCall(loc[t])
                   failed == [ToolCallID |-> tc.ID, Name |-> tc.Name,
                              Content |-> ErrMsg(tc, CallToolErr(tc.Name)),
                              IsError |-> TRUE]
               IN /\ loc'[t].allToolResults = Append(loc[t].allToolResults, failed)
                  /\ Last(loc'[t].toolResults).ToolCallID = tc.ID
                  /\ Last(loc'[t].toolResults).IsError
                  /\ loc'[t].pc \in {"AwaitingTools", "AwaitingModel",
                                     "IterationLimitReached"}
                  /\ loc'[t].result.returned => loc'[t].result.err = "nil"
                  /\ (loc[t].idx < Len(loc[t].aiToolCalls))
                        => /\ loc'[t].pc = "AwaitingTools"
                           /\ loc'[t].idx = loc[t].idx + 1
                           /\ loc'[t].aiToolCalls = loc[t].aiToolCalls
                  /\ (loc[t].idx = Len(loc[t].aiToolCalls))
                        => /\ Len(loc'[t].toolResults) = Len(loc[t].aiToolCalls)
                           /\ loc'[t].pc \in {"AwaitingModel", "IterationLimitReached"}]_vars

TransportErrorThenNextInvocation ==
    \E t \in Tasks :
        /\ loc[t].pc = "AwaitingTools"
        /\ loc[t].idx = 2
        /\ loc[t].lastOutcome = "transportError"
        /\ IsTransportErrorResult(Last(loc[t].allToolResults))

\* C11: a failure of Adapter.Chat ends the call: it returns the error and no
\* response, and makes no Chat and no CallTool afterwards; a call returns an
\* error only after a Chat failure, and otherwise a structured response.
ChatFailureAborts ==
    [][\A t \in Tasks :
          /\ (loc[t].pc = "AwaitingModel" /\ obs'[t].chatFailed)
                => /\ loc'[t].pc = "Failed"
                   /\ loc'[t].result.returned
                   /\ loc'[t].result.err = "AI provider error"
                   /\ "Response" \notin DOMAIN loc'[t].result
                   /\ obs'[t].chats = obs[t].chats
                   /\ obs'[t].calls = obs[t].calls
          /\ loc[t].pc = "Failed"
                => /\ loc'[t].pc \in {"Failed", "Idle"}
                   /\ loc'[t].pc = "Failed" => obs'[t] = obs[t]
          /\ (loc'[t].result.returned /\ ~obs'[t].chatFailed)
                => /\ loc'[t].result.err = "nil"
                   /\ {"Response", "ToolCalls", "ToolResults", "Metadata"}
                         \subseteq DOMAIN loc'[t].result
          /\ (loc'[t].result.returned /\ loc'[t].result.err # "nil")
                => obs'[t].chatFailed]_vars

\* a Chat failure in a later iteration, after tools were called
ChatFailedAfterToolTurn ==
    \E t \in Tasks :
        /\ loc[t].pc = "Failed"
        /\ obs[t].chatFailed
        /\ obs[t].chats >= 2
        /\ obs[t].calls >= 1

\* C12: within an iteration the i-th result belongs to the i-th invocation of
\* the Adapter's response; when the loop goes on to the next Chat (or to the
\* ceiling) every invocation has exactly one result, and the results fed back
\* to the model and those of the returned trace are in invocation order.
ResultsInInvocationOrder ==
    \A t \in Tasks :
        LET l == loc[t]
            n == Len(l.aiToolCalls)
            fed == IF l.pc \in {"AwaitingTools", "InCallTool"}
                   THEN l.toolResults
                   ELSE Last(l.conversationHistory).ToolResults
            base == Len(l.allToolResults) - Len(fed)
        IN (n > 0 /\ l.pc \in {"AwaitingTools", "InCallTool", "AwaitingModel",
                                "IterationLimitReached"})
             => /\ Len(fed) = IF l.pc \in {"AwaitingTools", "InCallTool"}
                              THEN l.idx - 1 ELSE n
                /\ base >= 0
                /\ \A i \in 1..Len(fed) :
                      /\ fed[i].ToolCallID = l.aiToolCalls[i].ID
                      /\ l.allToolResults[base + i].ToolCallID = l.aiToolCalls[i].ID
                      /\ l.allToolResults[base + i].Name = l.aiToolCalls[i].Name
                      /\ l.allToolResults[base + i].Content = fed[i].Content
                /\ l.pc = "AwaitingModel"
                      => l.currentPrompt = formatToolResultsForPrompt(fed)

\* two invocations of one response resolved, the second Chat about to be made
TwoResultsJoinedBeforeNextChat ==
    \E t \in Tasks :
        /\ loc[t].pc = "AwaitingModel"
        /\ Len(loc[t].aiToolCalls) = 2
        /\ Len(Last(loc[t].conversationHistory).ToolResults) = 2
        /\ loc[t].aiToolCalls[1].Name # loc[t].aiToolCalls[2].Name

\* C13: once the cancellation signal of a call has fired, the call starts no
\* CallTool, a CallTool in flight ends without a result, and what the call
\* returns is an error.
CancellationHonoured ==
    [][\A t \in Tasks :
          loc[t].ctxDone
            => /\ obs'[t].calls <= obs[t].calls
               /\ Len(loc'[t].allToolCalls) <= Len(loc[t].allToolCalls)
               /\ loc'[t].result.returned => loc'[t].result.err # "nil"]_vars

\* C14: a ProcessPrompt call that has started returns, also when the answer to
\* one of its CallTool calls never arrives.
StalledCallTimesOut ==
    \A t \in Tasks : (loc[t].pc # "Idle") ~> loc[t].result.returned

(***************************************************************************)
(* The response at the iteration ceiling                                   *)
(***************************************************************************)
\* a trace entry without the tool name, as the iteration's own list holds it
AsTurnResult(r) ==
    [ToolCallID |-> r.ToolCallID, Content |-> r.Content, IsError |-> r.IsError]

\* the results of all tool-result turns of a history, in order
RECURSIVE TurnResults(_)
TurnResults(h) ==
    IF h = <<>> THEN <<>> ELSE Head(h).ToolResults \o TurnResults(Tail(h))

\* C21: a call that stops at the iteration ceiling returns no error; its text
\* is the fixed advisory message and its trace holds the results of all five
\* iterations, those of the fifth included.
CeilingIsOrdinaryOutcome ==
    \A t \in Tasks :
        loc[t].pc = "IterationLimitReached" =>
            LET r == loc[t].result
                h == loc[t].conversationHistory
            IN /\ r.returned
               /\ r.err = "nil"
               /\ r.Response = AdvisoryMessage
               /\ Len(h) = 2 * MaxToolIterations
               /\ \A k \in 1..MaxToolIterations : Len(h[2 * k].ToolResults) >= 1
               /\ [i \in 1..Len(r.ToolResults) |-> AsTurnResult(r.ToolResults[i])]
                     = TurnResults(h)

CeilingReachedAfterFailedFifthTurn ==
    \E t \in Tasks :
        /\ loc[t].pc = "IterationLimitReached"
        /\ Last(loc[t].conversationHistory).ToolResults[1].IsError
        /\ Last(loc[t].result.ToolResults).IsError

(***************************************************************************)
(* One tool turn, then the answer                                          *)
(***************************************************************************)
\* the call of t started on an empty cache with no other call under way,
\* its first Chat asked for one invocation, which succeeded, and its second
\* Chat asked for none
OneToolTurnFromEmptyCache(t) ==
    /\ workload = "serial"
    /\ loc[t].pc = "Done"
    /\ obs[t].emptyAtStart
    /\ obs[t].firstEmpty = 2
    /\ Len(loc[t].allToolResults) = 1
    /\ ~loc[t].allToolResults[1].IsError

SuspendedInHandshake(u) == user[u].pc \in {"init.wait", "init.notify"}

\* C23: no lock is held across a suspension point; a goroutine waiting for
\* the handshake of an auto-initializing call does not hold the Client's
\* mutex.
NoLockAcrossSuspension ==
    \A u \in Users : SuspendedInHandshake(u) => mu # u

(***************************************************************************)
(* The cache built with a TTL of zero                                      *)
(***************************************************************************)
\* NewResultCache(0), lines 36-46, as CACHE_IMPLEMENTATION.md proposes
NewResultCacheZeroTTL ==
    /\ store = <<>>
    /\ ttl = 0
    /\ now = 0

ZeroTTLInit ==
    /\ NewResultCacheZeroTTL
    /\ NoRequests({"serial"})
    /\ NoCacheUser
    /\ NoKeyUser
    /\ NewClient
    /\ NewSession

ZeroTTLSpec == ZeroTTLInit /\ [][CacheNext]_vars

SweepAgreesWithGet ==
    [][(store' # store /\ lastSet' = lastSet)
         => /\ DOMAIN store' = {k \in DOMAIN store : now - store[k].Timestamp <= ttl}
            /\ \A k \in DOMAIN store' : store'[k] = store[k]
            /\ \A k \in CacheKeys, t \in now..MaxTime :
                  CacheGet(store', k, t) = CacheGet(store, k, t)]_vars

SweptOneKeptOneAtTTL ==
    \E k, j \in CacheKeys :
        /\ lastSet[k].set
        /\ k \notin DOMAIN store
        /\ j \in DOMAIN store
        /\ now - store[j].Timestamp = ttl

(***************************************************************************)
(* ResultCache.mu: the methods of the cache, one lock operation at a time  *)
(***************************************************************************)
LockModeAllShared(op) == "r"

\* lines 50, 68, 84 and 97: RLock in Get and Stats, Lock in Set and cleanupExpired
LockMode(op) == IF op \in {"Get", "Stats"} THEN "r" ELSE "w"

\* sync.RWMutex: a reader waits for a writer, a writer waits for every holder
CanLock(g, mode) ==
    IF mode = "r"
    THEN \A h \in LockUsers \ {g} : inCache[h].holds # "w"
    ELSE \A h \in LockUsers \ {g} : inCache[h].holds = "none"

CacheDelete(st, key) == [k \in DOMAIN st \ {key} |-> st[k]]

lockFrame == <<ttl, got, lastSet, refs, orchVars, keyVars, clientVars, sessionVars>>

\* a request handler calls Get, Set or Stats
EnterCache(g) ==
    /\ inCache[g].pc = "out"
    /\ \E op \in {"Get", "Set", "Stats"}, k \in CacheKeys :
         /\ op = "Stats" => k = CHOOSE j \in CacheKeys : TRUE
         /\ inCache' = [inCache EXCEPT ![g] =
                           [OutOfCache EXCEPT !.pc = "lock", !.op = op,
                                              !.key = IF op = "Stats" THEN <<>> ELSE k]]
    /\ UNCHANGED <<store, now, lockFrame>>

\* c.mu.RLock() or c.mu.Lock() returns
Acquire(g) ==
    /\ inCache[g].pc = "lock"
    /\ CanLock(g, LockMode(inCache[g].op))
    /\ inCache' = [inCache EXCEPT ![g].pc = "in",
                                  ![g].holds = LockMode(inCache[g].op),
                                  ![g].at = now]
    /\ UNCHANGED <<store, now, lockFrame>>

\* Get, lines 53-63
GetBody(g) ==
    /\ inCache[g].pc = "in"
    /\ inCache[g].op = "Get"
    /\ inCache' = [inCache EXCEPT
                     ![g].pc = "leave",
                     ![g].count = IF CacheGet(store, inCache[g].key, now).found
                                  THEN 1 ELSE 0]
    /\ UNCHANGED <<store, now, lockFrame>>

\* Set, lines 71-75; ProcessPrompt stores successes only (line 243)
SetBody(g) ==
    /\ inCache[g].pc = "in"
    /\ inCache[g].op = "Set"
    /\ store' = CacheSet(store, inCache[g].key, <<"text", "[]">>, FALSE, now)
    /\ inCache' = [inCache EXCEPT ![g].pc = "leave"]
    /\ UNCHANGED <<now, lockFrame>>

\* Stats, lines 100-102
StatsBody(g) ==
    /\ inCache[g].pc = "in"
    /\ inCache[g].op = "Stats"
    /\ inCache' = [inCache EXCEPT ![g].pc = "leave",
                                  ![g].count = Stats(store).total_entries]
    /\ UNCHANGED <<store, now, lockFrame>>

\* cleanupExpired, lines 86-90: one entry of the range loop
SweepVisits ==
    /\ inCache["sweeper"].pc = "in"
    /\ \E k \in DOMAIN store \ inCache["sweeper"].seen :
         /\ store' = IF SweepExpired(store[k], inCache["sweeper"].at)
                      THEN CacheDelete(store, k) ELSE store
         /\ inCache' = [inCache EXCEPT !["sweeper"].seen = @ \cup {k}]
    /\ UNCHANGED <<now, lockFrame>>

\* cleanupExpired, line 91: the range loop is over
SweepEnds ==
    /\ inCache["sweeper"].pc = "in"
    /\ DOMAIN store \ inCache["sweeper"].seen = {}
    /\ inCache' = [inCache EXCEPT !["sweeper"].pc = "leave"]
    /\ UNCHANGED <<store, now, lockFrame>>

\* the deferred RUnlock or Unlock, or line 91
Release(g) ==
    /\ inCache[g].pc = "leave"
    /\ inCache' = [inCache EXCEPT ![g] = OutOfCache]
    /\ UNCHANGED <<store, now, lockFrame>>

\* a minute passes and the ticker of line 80 fires; a sweeper still busy
\* takes the tick when it is done
TickerFires ==
    /\ now < MaxTime
    /\ now' = now + 1
    /\ inCache' = IF inCache["sweeper"].pc = "out"
                  THEN [inCache EXCEPT !["sweeper"] =
                           [OutOfCache EXCEPT !.pc = "lock", !.op = "cleanupExpired"]]
                  ELSE inCache
    /\ UNCHANGED <<store, lockFrame>>

LockNext ==
    \/ \E g \in CacheCallers : EnterCache(g)
    \/ \E g \in LockUsers : Acquire(g)
    \/ \E g \in CacheCallers : GetBody(g)
    \/ \E g \in CacheCallers : SetBody(g)
    \/ \E g \in CacheCallers : StatsBody(g)
    \/ SweepVisits
    \/ SweepEnds
    \/ \E g \in LockUsers : Release(g)
    \/ TickerFires

LockSpec == CacheInit /\ [][LockNext]_vars

\* C26: Set and the sweep exclude each other and every Get and Stats; Get
\* and Stats share the lock; Stats returns the number of entries in the store.
ReaderWriterDiscipline ==
    /\ \A g \in LockUsers :
          inCache[g].pc \in {"in", "leave"} =>
              IF inCache[g].op \in {"Set", "cleanupExpired"}
              THEN /\ inCache[g].holds = "w"
                   /\ \A h \in LockUsers \ {g} : inCache[h].pc \notin {"in", "leave"}
              ELSE inCache[g].holds = "r"
    /\ \A g \in CacheCallers :
          (inCache[g].op = "Stats" /\ inCache[g].pc = "leave") =>
              inCache[g].count = Cardinality(DOMAIN store)

GetAndStatsTogetherSweeperWaits ==
    /\ inCache["g1"].op = "Get"
    /\ inCache["g1"].pc = "in"
    /\ inCache["g2"].op = "Stats"
    /\ inCache["g2"].pc = "leave"
    /\ inCache["g2"].count = 2
    /\ inCache["sweeper"].pc = "lock"

(***************************************************************************)
(* Overlapping calls of ProcessPrompt                                      *)
(***************************************************************************)
\* the locals of the call of t hold what that call itself did: its own
\* prompt, the answers to its own Chat calls, one iteration per Chat call,
\* and one hit or miss and one trace entry per invocation it resolved
OwnLocalsOnly(t) ==
    LET l == loc[t]
        h == l.conversationHistory
    IN l.pc \notin {"Idle", "Failed"} =>
          /\ l.iteration = obs[t].chats
          /\ l.iteration = 1 /\ l.pc = "AwaitingModel" => l.currentPrompt = UserPrompt(t)
          /\ \A i \in 1..Len(h) :
                h[i].Content # <<>> => h[i].Content = Text(t, (i + 1) \div 2)
          /\ l.cacheMisses = obs[t].calls
          /\ l.cacheHits + l.cacheMisses
                = Len(l.allToolResults) + (IF l.pc = "InCallTool" THEN 1 ELSE 0)
          /\ Len(l.allToolResults) = Len(TurnResults(h))
                + (IF l.pc \in {"AwaitingTools", "InCallTool"}
                   THEN Len(l.toolResults) ELSE 0)

\* C27: overlapping calls of ProcessPrompt share no locals; the trace, the
\* history, the iteration count and the hit and miss counters of a call hold
\* its own invocations only, and a step of one call leaves those of every
\* other call as they were.
CallsShareNoLocals ==
    [][\A t \in Tasks :
          /\ OwnLocalsOnly(t)'
          /\ loc'[t] # loc[t] => \A u \in Tasks \ {t} : loc'[u] = loc[u]]_vars

HitOnTheOtherCallsEntry ==
    /\ workload = "overlapping"
    /\ loc["p1"].pc = "AwaitingModel"
    /\ loc["p1"].cacheMisses = 1
    /\ loc["p1"].cacheHits = 0
    /\ loc["p2"].pc = "AwaitingModel"
    /\ loc["p2"].cacheHits = 1
    /\ loc["p2"].cacheMisses = 0

(***************************************************************************)
(* The trace of a response: invocations against results                    *)
(***************************************************************************)
\* C28: in a returned response every tool result has its tool call, with the
\* same id, and tool_calls and tool_results have the same length, also after
\* a run in which CallTool returned a transport error.
TraceCallsMatchResults ==
    \A t \in Tasks :
        LET r == loc[t].result
        IN (r.returned /\ r.err = "nil") =>
              /\ Len(r.ToolCalls) = Len(r.ToolResults)
              /\ \A i \in 1..Len(r.ToolResults) :
                    /\ i <= Len(r.ToolCalls)
                    /\ r.ToolCalls[i].ID = r.ToolResults[i].ToolCallID
                    /\ r.ToolCalls[i].Name = r.ToolResults[i].Name

(***************************************************************************)
(* The conversation history from one Chat call to the next                 *)
(***************************************************************************)
\* q extends p
IsPrefix(p, q) == Len(p) <= Len(q) /\ SubSeq(q, 1, Len(p)) = p

\* the history the call of t passes to its next Chat: for every earlier
\* iteration k the assistant text of k, then the tool-result turn of k
HistoryOfWholeTurns(t) ==
    LET l == loc[t]
        h == l.conversationHistory
    IN /\ Len(h) = 2 * (l.iteration - 1)
       /\ \A k \in 1..(l.iteration - 1) :
             /\ h[2 * k - 1] = [Role |-> "assistant", Content |-> Text(t, k),
                                ToolResults |-> <<>>]
             /\ h[2 * k].Role = "assistant"
             /\ h[2 * k].Content = <<>>
             /\ Len(h[2 * k].ToolResults) >= 1
       /\ l.iteration > 1 => Last(h).ToolResults = l.toolResults

\* C29: the history is append-only within a call, and the history passed to
\* the (k+1)-th Chat extends the one passed to the k-th by exactly the k-th
\* assistant text followed by the k-th tool-result turn.
HistoryAppendOnly ==
    [][\A t \in Tasks :
          /\ (loc[t].pc # "Idle" /\ loc'[t].pc # "Idle")
                => IsPrefix(loc[t].conversationHistory, loc'[t].conversationHistory)
          /\ loc'[t].pc = "AwaitingModel" => HistoryOfWholeTurns(t)']_vars

ThirdChatAfterTwoWholeTurns ==
    \E t \in Tasks :
        /\ loc[t].pc = "AwaitingModel"
        /\ loc[t].iteration = 3
        /\ Len(loc[t].conversationHistory) = 4
        /\ Len(loc[t].conversationHistory[2].ToolResults) = 2

(***************************************************************************)
(* The prompt built from an iteration's results                            *)
(***************************************************************************)
\* C30: the prompt of the next Chat holds exactly one entry per invocation
\* of the iteration just resolved, in invocation order, each marked as a
\* failure exactly when its isError is true, and no result of an earlier
\* iteration.
PromptHoldsTheIterationsResults ==
    \A t \in Tasks :
        (loc[t].pc = "AwaitingModel" /\ loc[t].iteration > 1) =>
            LET p == loc[t].currentPrompt
                calls == loc[t].aiToolCalls
                res == loc[t].toolResults
            IN /\ Len(res) = Len(calls)
               /\ Len(p) = Len(calls) + 2
               /\ p[1] = "Tool execution results:"
               /\ p[Len(p)]
                     = "Please analyze these results and provide a response to the user."
               /\ \A i \in 1..Len(calls) :
                     /\ res[i].ToolCallID = calls[i].ID
                     /\ p[i + 1][1] = (IF res[i].IsError THEN "Error" ELSE "Success")
                     /\ p[i + 1][2] = res[i].Content

PromptWithFailureThenSuccess ==
    \E t \in Tasks :
        /\ loc[t].pc = "AwaitingModel"
        /\ loc[t].iteration = 3
        /\ Len(loc[t].currentPrompt) = 4
        /\ loc[t].currentPrompt[2][1] = "Error"
        /\ loc[t].currentPrompt[3][1] = "Success"

(***************************************************************************)
(* The user's prompt at each Chat call                                     *)
(***************************************************************************)
\* what line 163 hands to Chat holds the prompt of the request
PromptReachesChat(t) ==
    \/ loc[t].currentPrompt = UserPrompt(t)
    \/ \E i \in 1..Len(loc[t].conversationHistory) :
          /\ loc[t].conversationHistory[i].Role = "user"
          /\ loc[t].conversationHistory[i].Content = UserPrompt(t)

\* C31: at every Chat call of a ProcessPrompt, the second and later ones
\* included, the user's original prompt is the current prompt or a user
\* message of the history.
UserPromptAtEveryChat ==
    \A t \in Tasks : loc[t].pc = "AwaitingModel" => PromptReachesChat(t)

(***************************************************************************)
(* One invocation resolved against the cache, lines 198-247, with          *)
(* argument maps that json.Marshal can and cannot encode                   *)
(***************************************************************************)
\* invocations of one tool: two argument maps that encode, two that do not
KeyedChoices ==
    { [Name |-> "get_blueprint", Arguments |-> << <<"name", "x">> >>],
      [Name |-> "get_blueprint", Arguments |-> << <<"name", "y">> >>],
      [Name |-> "get_blueprint", Arguments |-> << <<"name", "x">>, <<"ns", Unsupported>> >>],
      [Name |-> "get_blueprint", Arguments |-> << <<"name", "y">>, <<"ns", Unsupported>> >>] }

CallToolOutcomesAnyArgs(args) == ToolOutcomes

\* CallTool, api.go lines 383-391 and 436-439: the request carries the
\* arguments, and call returns an error when it cannot encode the request
CallToolOutcomes(args) ==
    IF MarshalFails(args) THEN {"transportError"} ELSE ToolOutcomes

\* what the endpoint answers: it depends on the tool and on the arguments
ResultFor(name, args, outcome) ==
    IF outcome = "ok"
    THEN [Content |-> <<TextPart(<<name, args[1][2]>>)>>, IsError |-> FALSE]
    ELSE [Content |-> <<TextPart(<<"tool failed", name>>)>>, IsError |-> TRUE]

\* lines 198-247 for one invocation
ResolveInvocation(c) ==
    LET key == generateCacheKey(c.Name, c.Arguments)
        cached == CacheGet(store, key, now)
        seen == [resolution EXCEPT !.tool = c.Name, !.args = c.Arguments,
                                   !.fellBack = @ \/ MarshalFails(c.Arguments)]
    IN /\ IF cached.found
          THEN /\ resolution' = [seen EXCEPT !.hit = TRUE,
                                             !.content = cached.entry.Content,
                                             !.isError = cached.entry.IsError]
               /\ store' = store
          ELSE \E outcome \in CallToolOutcomes(c.Arguments) :
                 IF outcome = "transportError"
                 THEN /\ resolution' = [seen EXCEPT !.hit = FALSE,
                                                    !.content = <<"error", <<c.Name, "">> >>,
                                                    !.isError = TRUE]
                      /\ store' = store
                 ELSE LET mcpResult == ResultFor(c.Name, c.Arguments, outcome)
                          resultContent == formatToolResult(mcpResult)
                          isError == mcpResult.IsError
                      IN /\ resolution' =
                               [seen EXCEPT
                                  !.hit = FALSE, !.content = resultContent,
                                  !.isError = isError,
                                  !.produced =
                                     IF isError THEN @
                                     ELSE @ \cup {[tool |-> c.Name, args |-> c.Arguments,
                                                   content |-> resultContent]}]
                         /\ store' = IF ShouldCache(isError)
                                      THEN CacheSet(store, key, resultContent, isError, now)
                                      ELSE store
       /\ UNCHANGED <<ttl, now, orchVars, cacheUserVars, keyIn, keyOut, parse, creation,
                      clientVars, sessionVars>>

KeyedNext ==
    \/ \E c \in KeyedChoices : ResolveInvocation(c)
    \/ CleanupExpired
    \/ Minute

KeyedSpec == CacheInit /\ [][KeyedNext]_vars

\* C32: a cache hit for an invocation (T, A) returns only content that an
\* earlier successful CallTool produced for T with arguments equal to A; an
\* invocation whose arguments cannot be encoded, keyed by the tool name
\* alone, gets no hit and leaves nothing in the cache for other calls.
HitServesSameInvocation ==
    /\ resolution.hit =>
          \E p \in resolution.produced :
              /\ p.tool = resolution.tool
              /\ Range(p.args) = Range(resolution.args)
              /\ p.content = resolution.content
    /\ MarshalFails(resolution.args) => ~resolution.hit
    /\ \A c \in KeyedChoices :
          MarshalFails(c.Arguments)
              => generateCacheKey(c.Name, c.Arguments) \notin DOMAIN store

HitAfterUnencodableInvocation ==
    /\ resolution.hit
    /\ resolution.fellBack
    /\ Cardinality(resolution.produced) = 2

(***************************************************************************)
(* The cache counters of a response                                        *)
(***************************************************************************)
\* C33: in every response, cache_hits + cache_misses is the number of
\* invocations the Adapter returned over all iterations, and cache_misses is
\* the number of CallTool calls the ProcessPrompt made.
CountersAccountForInvocations ==
    \A t \in Tasks :
        LET r == loc[t].result
        IN (r.returned /\ r.err = "nil") =>
              /\ r.Metadata.cache_hits + r.Metadata.cache_misses = obs[t].asked
              /\ r.Metadata.cache_misses = obs[t].calls

ResponseWithHitsMissesAndFailure ==
    \E t \in Tasks :
        /\ loc[t].pc = "Done"
        /\ loc[t].result.Metadata.cache_hits = 1
        /\ loc[t].result.Metadata.cache_misses = 2
        /\ obs[t].asked = 3
        /\ \E i \in 1..Len(loc[t].result.ToolResults) :
              loc[t].result.ToolResults[i].IsError

(***************************************************************************)
(* The reader's send on a call's channel                                   *)
(***************************************************************************)
\* the reader is at the send of line 504, the channel's one slot is taken,
\* and the call that made the channel is past its only receive
ReaderBlockedForGood ==
    /\ reader.pc = "delivering"
    /\ Len(chan[reader.id]) = 1
    /\ \A c \in Callers0 :
          caller[c].id = reader.id => caller[c].pc \notin {"registered", "waiting"}

\* C34: the reader never blocks forever on a delivery, whatever the endpoint
\* sends, repeated responses for one id included; it goes on to decode later
\* messages.
ReaderNeverBlockedForGood == ~ReaderBlockedForGood

(***************************************************************************)
(* Initialize that returns an error                                        *)
(***************************************************************************)
\* the step at which the Initialize of u returns an error
InitializeFailsNow(u) ==
    user[u].initResult # "error" /\ user'[u].initResult = "error"

\* C35: when Initialize returns an error the Client is left not initialized,
\* so that a later Initialize, ListTools or CallTool runs the handshake again.
FailedInitializeLeavesUninitialized ==
    [][\A u \in Users : InitializeFailsNow(u) => ~initialized']_vars

(***************************************************************************)
(* Requests and the handshake                                              *)
(***************************************************************************)
\* C36: no tools/list or tools/call request is sent before the handshake has
\* completed, also when several goroutines call ListTools or CallTool on a
\* fresh Client at once.
RequestsOnlyAfterHandshake == ~hist.sentBeforeDone

(***************************************************************************)
(* The cache by reference: c.store maps a key to a pointer, and Get hands  *)
(* the pointer out                                                         *)
(***************************************************************************)
SetInPlace(r, key, rec) ==
    IF r.at[key] # 0
    THEN [r EXCEPT !.objects[r.at[key]] = rec]
    ELSE [r EXCEPT !.objects = Append(@, rec), !.at[key] = Len(r.objects) + 1]

\* Set, lines 71-75: c.store[key] = &CachedResult{...}, a new object
SetFresh(r, key, rec) ==
    [r EXCEPT !.objects = Append(@, rec), !.at[key] = Len(r.objects) + 1]

refFrame == <<store, ttl, got, lastSet, inCache, orchVars, keyVars, clientVars, sessionVars>>

\* Get, lines 49-64: the pointer in the map is returned when the entry is live
RefGet(key) ==
    /\ refs.at[key] # 0
    /\ ~GetExpired(refs.objects[refs.at[key]], now)
    /\ refs' = [refs EXCEPT !.held = refs.at[key], !.seen = refs.objects[refs.at[key]]]
    /\ UNCHANGED <<now, refFrame>>

\* Set, lines 67-76
RefSet(key, content, isError) ==
    /\ Len(refs.objects) < MaxObjects
    /\ refs' = SetFresh(refs, key,
                        [Content |-> content, Timestamp |-> now, IsError |-> isError])
    /\ UNCHANGED <<now, refFrame>>

\* cleanupExpired, lines 84-91: expired keys leave the map
RefSweep ==
    /\ refs' = [refs EXCEPT !.at =
                   [k \in CacheKeys |->
                       IF refs.at[k] # 0 /\ SweepExpired(refs.objects[refs.at[k]], now)
                       THEN 0 ELSE refs.at[k]]]
    /\ refs' # refs
    /\ UNCHANGED <<now, refFrame>>

\* a minute passes
RefMinute ==
    /\ now < MaxTime
    /\ now' = now + 1
    /\ UNCHANGED <<refs, refFrame>>

RefNext ==
    \/ \E k \in CacheKeys : RefGet(k)
    \/ \E k \in CacheKeys, v \in CacheValues : RefSet(k, v.Content, v.IsError)
    \/ RefSweep
    \/ RefMinute

RefSpec == CacheInit /\ [][RefNext]_vars

\* C37: an entry obtained from Get is a stable value; a later Set on its key
\* or a sweep changes neither its content nor its isError nor its timestamp.
HeldEntryStable ==
    refs.held # 0 => refs.objects[refs.held] = refs.seen

HeldEntryReplacedInMap ==
    /\ refs.held # 0
    /\ \A k \in CacheKeys : refs.at[k] # refs.held
    /\ \E k \in CacheKeys :
          /\ refs.at[k] # 0
          /\ refs.objects[refs.at[k]].Timestamp > refs.seen.Timestamp
          /\ refs.objects[refs.at[k]].Content # refs.seen.Content

(***************************************************************************)
(* extractToolCalls and extractToolCallsGlean: the invocations the two     *)
(* text-parsing Adapters find in a model text.  A text is a sequence of    *)
(* lines; a line is plain text or one TOOL_CALL marker, written with       *)
(* parentheses (tool(args)) or without (tool alone).                       *)
(***************************************************************************)
MarkerNames == {"list_blueprints", "get_blueprint", "no_such_tool"}

TextLines ==
    {[marker |-> FALSE, name |-> "", form |-> "plain"]}
    \cup {[marker |-> TRUE, name |-> n, form |-> f] :
             n \in MarkerNames, f \in {"parens", "bare"}}

Texts == UNION {[1..n -> TextLines] : n \in 0..MaxLines}

ToolExistsAny(name, valid) == TRUE

\* api.go lines 1245-1248 and 1270-1272, lines 854-864: the name is one of the tools
ToolExists(name, valid) == name \in valid

\* extractToolCalls, api.go lines 1241-1298: line by line; a marker without
\* an opening parenthesis is skipped, the id is made of the line's index
RECURSIVE ExtractLines(_, _, _)
ExtractLines(content, valid, i) ==
    IF i > Len(content) THEN <<>>
    ELSE (IF /\ content[i].marker
             /\ content[i].form = "parens"
             /\ ToolExists(content[i].name, valid)
          THEN <<[ID |-> <<"gemini_call", i - 1>>, Name |-> content[i].name,
                  Arguments |-> <<>>, line |-> i]>>
          ELSE <<>>)
         \o ExtractLines(content, valid, i + 1)

extractToolCalls(content, valid) == ExtractLines(content, valid, 1)

\* the lines of the text that a pattern matches, in the order of the text
RECURSIVE Matches(_, _, _)
Matches(content, form, i) ==
    IF i > Len(content) THEN <<>>
    ELSE (IF content[i].marker /\ content[i].form = form THEN <<i>> ELSE <<>>)
         \o Matches(content, form, i + 1)

\* api.go lines 844-873 and 879-905: the matches of one pattern whose tool
\* exists, the id made of the match's index
RECURSIVE FromMatches(_, _, _, _)
FromMatches(content, valid, matches, i) ==
    IF i > Len(matches) THEN <<>>
    ELSE (IF ToolExists(content[matches[i]].name, valid)
          THEN <<[ID |-> <<"call", i>>, Name |-> content[matches[i]].name,
                  Arguments |-> <<>>, line |-> matches[i]]>>
          ELSE <<>>)
         \o FromMatches(content, valid, matches, i + 1)

\* extractToolCallsGlean, api.go lines 832-913: the markers with parentheses,
\* and the markers without only when the first pattern gave no invocation
extractToolCallsGlean(content, valid) ==
    LET first == FromMatches(content, valid, Matches(content, "parens", 1), 1)
    IN IF Len(first) = 0
       THEN FromMatches(content, valid, Matches(content, "bare", 1), 1)
       ELSE first

ParseInit ==
    /\ NewResultCache
    /\ NoRequests({"serial"})
    /\ NoCacheUser
    /\ keyIn = NoKeyIn
    /\ keyOut = NoKeyOut
    /\ resolution = NoResolution
    /\ parse \in {[NoParse EXCEPT !.text = t] : t \in Texts}
    /\ creation = NoCreation
    /\ NewClient
    /\ NewSession

\* both Adapters parse the text against the catalog
ExtractToolCalls ==
    /\ ~parse.done
    /\ parse' = [parse EXCEPT !.done = TRUE,
                              !.gemini = extractToolCalls(parse.text, Range(Catalog)),
                              !.glean = extractToolCallsGlean(parse.text, Range(Catalog))]
    /\ UNCHANGED <<store, ttl, now, orchVars, cacheUserVars, keyIn, keyOut, resolution,
                   creation, clientVars, sessionVars>>

ParseNext == ExtractToolCalls

ParseSpec == ParseInit /\ [][ParseNext]_vars

\* the invocations are of catalog tools, each the marker of its line, in the
\* order of the text, with ids that differ pairwise
WellFormedCalls(calls, text) ==
    /\ \A i \in 1..Len(calls) :
          /\ calls[i].Name \in Range(Catalog)
          /\ text[calls[i].line].marker
          /\ text[calls[i].line].name = calls[i].Name
    /\ \A i, j \in 1..Len(calls) :
          i < j => (calls[i].line < calls[j].line /\ calls[i].ID # calls[j].ID)

\* C38: the text-parsing Adapters emit only invocations whose tool is in the
\* catalog passed to them, in the order in which the TOOL_CALL markers appear
\* in the text, with ids that are pairwise distinct within one response.
ParsedCallsWellFormed ==
    parse.done => /\ WellFormedCalls(parse.gemini, parse.text)
                  /\ WellFormedCalls(parse.glean, parse.text)

TwoCallsAroundUnknownTool ==
    /\ parse.done
    /\ Len(parse.text) = 3
    /\ parse.text[2].name = "no_such_tool"
    /\ Len(parse.gemini) = 2
    /\ Len(parse.glean) = 2
    /\ parse.glean[2].ID = <<"call", 3>>

(***************************************************************************)
(* ResourceService.CreateResource, orchestration.go lines 422-462, with    *)
(* the repository and the state repository behind its ports                *)
(***************************************************************************)
ResourceNames == {"r1", "r2"}

\* the blueprints Crossplane lists, and the names a request may carry
Blueprints == {"bp1"}

BlueprintNames == {"bp1", "missing"}

createFrame ==
    <<store, ttl, now, orchVars, cacheUserVars, keyIn, keyOut, resolution, parse,
      clientVars, sessionVars>>

CreateReturns(c, result) == [c EXCEPT !.pc = "returned", !.result = result]

\* CreateResource is called
CreateResource(name, bp) ==
    /\ creation.pc \in {"idle", "returned"}
    /\ creation' = [creation EXCEPT !.pc = "listing", !.name = name,
                                    !.blueprintName = bp, !.result = "none",
                                    !.savedAtEntry = creation.saved]
    /\ UNCHANGED createFrame

\* lines 426-439: ListBlueprints fails, or the blueprint is looked up
ListBlueprintsReturns ==
    /\ creation.pc = "listing"
    /\ \E ok \in BOOLEAN :
          creation' = IF ~ok THEN CreateReturns(creation, "error")
                      ELSE IF creation.blueprintName \notin Blueprints
                           THEN CreateReturns(creation, "ErrBlueprintNotFound")
                           ELSE [creation EXCEPT !.pc = "building"]
    /\ UNCHANGED createFrame

\* lines 442-445: BuildXRD
BuildXRDReturns ==
    /\ creation.pc = "building"
    /\ \E ok \in BOOLEAN :
          creation' = IF ok THEN [creation EXCEPT !.pc = "saving"]
                      ELSE CreateReturns(creation, "error")
    /\ UNCHANGED createFrame

\* lines 448-451: SaveResource
SaveResourceReturns ==
    /\ creation.pc = "saving"
    /\ \E ok \in BOOLEAN :
          creation' = IF ok THEN [creation EXCEPT !.pc = "pushing",
                                                 !.saved = @ \cup {creation.name}]
                      ELSE CreateReturns(creation, "error")
    /\ UNCHANGED createFrame

\* lines 454-461: PushXRDToRepo, then the return
PushXRDReturns ==
    /\ creation.pc = "pushing"
    /\ \E ok \in BOOLEAN :
          creation' = IF ok THEN CreateReturns([creation EXCEPT
                                                  !.pushed = @ \cup {creation.name}],
                                               "ok")
                      ELSE CreateReturns(creation, "error")
    /\ UNCHANGED createFrame

CreateNext ==
    \/ \E name \in ResourceNames, bp \in BlueprintNames : CreateResource(name, bp)
    \/ ListBlueprintsReturns
    \/ BuildXRDReturns
    \/ SaveResourceReturns
    \/ PushXRDReturns

CreateSpec == CacheInit /\ [][CreateNext]_vars

\* C39: CreateResource is all-or-nothing: when it returns an error it leaves
\* no resource record in the repository, and the XRD is pushed only after
\* the resource was saved.
CreateResourceAllOrNothing ==
    /\ (creation.pc = "returned" /\ creation.result # "ok")
          => creation.saved = creation.savedAtEntry
    /\ creation.pushed \subseteq creation.saved
====
